---- MODULE Spec2Model ----
(***************************************************************************)
(* PortFly tunnel runtime: the SSH connection pool (core/ssh ConnectionPool *)
(* and SSHClient), the tunnel manager (core/ssh TunnelManager) and the      *)
(* session manager (manager.SessionManager), as state machines.             *)
(*                                                                          *)
(* Goroutines are modelled by program counters.  A step is one critical     *)
(* section of the code (the span between two lock acquisitions or blocking  *)
(* calls), so every interleaving the Go scheduler can produce at lock       *)
(* granularity is a behaviour of the model.                                 *)
(***************************************************************************)
EXTENDS Integers, FiniteSets, Sequences, TLC

\* ------------------------------------------------------------------ bounds

\* Number of SSHClient objects (pool tenants) in the pool-only specification.
NumClients == 2
\* Number of sessions the session manager is asked to create.
NumSessions == 1
\* Number of sessions in the specification of sessions sharing a pool key.
NumPair == 2
\* Number of SSH handshakes that can succeed in one behaviour.
MaxConns == 2
\* ConnectionPool.maxSize of the modelled pool.
MaxSize == 2
\* Largest per-session MaxRetries a caller asks for.
MaxRetriesReq == 1
\* Number of StopSession calls per session that are followed.
MaxStops == 2
\* sm.config.MaxRetries of the modelled manager (the default applied to 0).
SmMaxRetries == 2
\* Largest ReconnectCount that is counted.
MaxReconnects == 2
\* Client connections to one rule that are followed at one time.
NumSlots == 2
\* tm.config.MaxConnections of the rule under traffic.
MaxConnections == 1
\* Largest TotalConnections that is counted.
MaxTotal == 3
\* The rule's IdleTimeout, in clock ticks.
IdleTimeout == 2
\* Clock ticks followed while a transfer runs.
MaxAge == 3
\* Bytes of one peer that are unread or lost at one time.
MaxBytes == 2
\* Bytes one peer sends during a transfer.
MaxSent == 3
\* Lines the known-hosts file can hold.
MaxKnownHosts == 3
\* Chunks of shell output waiting on one stream.
MaxOut == 1
\* terminal_connect messages one WebSocket client sends.
MaxConnects == 2

Clients  == 1..NumClients
Sessions == 1..NumSessions
Pair     == 1..NumPair
\* Every session owns the SSHClient and the TunnelManager of its own number.
Ids      == Clients \cup Sessions \cup Pair
ConnIds  == 1..MaxConns
Keys     == {"alice@gw:22", "bob@gw:22"}
NoKey    == "none"
Nil      == 0
\* Connections a rule's listener can have accepted at one time.
Slots    == 1..NumSlots
\* conn1 and conn2 of a transfer call, and its two copy directions.
Sides    == {"a", "b"}
Dirs     == {"ab", "ba"}
\* SSH connections one terminal session opens, in the order it opens them.
Gens     == 1..MaxConnects
\* The output goroutines: one for stdout and one for stderr of every shell.
Pumps    == {"stdout", "stderr"} \X Gens
\* Holders of session.WSMutex besides the pumps: nobody, and the goroutine of
\* HandleTerminalConnection.
NoHolder == <<"none", 0>>
HandlerId == <<"handler", 0>>
\* Callers of StopSession: the API layer and SessionManager.Close.
Callers  == {"api", "Close"}

VARIABLES
  \* ConnectionPool and the SSH transports
  pool,        \* cp.connections: set of [key, client, inUse, expired]
  conn,        \* state of every *ssh.Client ever created
  connKey,     \* the pool key each transport was dialled for
  \* SSHClient objects
  ckey,        \* c.config as its pool key
  cclient,     \* c.client (Nil or a transport)
  cconnected,  \* c.connected
  cpc,         \* position of the Connect call holding c.mu
  ctmp,        \* createConnection's local "client"
  cres,        \* result of the last Connect call
  \* SessionManager
  inMap,       \* sm.sessions membership
  status,      \* session.Status
  pc,          \* position of the runSession goroutine
  dpc,         \* position of the DeleteSession caller
  stopChan,    \* tokens buffered in session.StopChan (capacity 1)
  cancelled,   \* ms.ctx is cancelled
  lastError,   \* session.LastError
  reqRetries,  \* MaxRetries the caller passed to CreateSession
  attempt,     \* Reconnect's loop index i
  sessActive,  \* session.Stats.ActiveConnections
  sessReconn,  \* session.Stats.ReconnectCount
  stops,       \* StopSession calls that returned nil
  \* TunnelManager
  running,     \* tm.running
  tstop,       \* tm.stopChan is closed
  listener,    \* the rule's listener is open
  acc,         \* position of the accept-loop goroutine
  tconn,       \* the connection handler goroutine and its connection
  \* ConnectionPool configuration
  maxSize,     \* cp.maxSize
  \* One running tunnel under client traffic
  ttype,       \* tm.config.Type of the rule: "local" or "remote"
  peerLost,    \* the SSH peer closed the remote listener
  hpc,         \* position of every connection handler goroutine
  tmTotal,     \* tm.stats.TotalConnections
  tmActive,    \* tm.stats.ActiveConnections
  tmFailed,    \* tm.stats.FailedConnections
  \* One transfer call between conn1 ("a") and conn2 ("b")
  cp,          \* the two copy goroutines: "run" or "done"
  why,         \* what ended each copy
  closed,      \* Close() was called on the connection
  eof,         \* the peer of the connection has finished sending
  pending,     \* bytes the peer has sent that are not yet copied
  dropped,     \* bytes the peer has sent that can no longer be copied
  age,         \* time since copyData set the deadlines
  idle,        \* time since a byte last moved
  moved,       \* bytes each io.Copy call has written so far
  bytesSent,   \* tm.stats.BytesSent
  bytesReceived,  \* tm.stats.BytesReceived
  \* AuthManager host key verification
  knownHosts,  \* lines of the known-hosts file
  hkHost,      \* host of the handshake in progress
  hkKey,       \* key the server presents in it
  hkResult,    \* what the callback returned
  \* The rule's listen address
  bindCfg,     \* the bind address the rule carries ("" when unset)
  allowRemote, \* tm.config.AllowRemoteConnections
  bindPort,    \* the port the rule listens on
  boundAddr,   \* address and port the listener is bound to
  \* Connections to a dynamic (SOCKS) rule
  sreq,        \* the CONNECT target each accepted client has sent
  targetAddr,  \* remoteAddr / targetAddr of each handler
  \* One terminal session of the TerminalManager
  termIn,      \* the session is in tm.sessions
  termDone,    \* session.Context is cancelled
  hpos,        \* position of the HandleTerminalConnection goroutine
  hnext,       \* where it goes after sendMessage / sendError
  sshSess,     \* every SSH connection with its shell: "none", "open", "closed"
  sshCur,      \* the one session.SSHClient / session.SSHSession point to (0: nil)
  wsOpen,      \* the WebSocket client has not closed its end
  ppc,         \* position of the stdout and stderr pumps
  wsMutex,     \* holder of session.WSMutex
  outBuf,      \* output the shell has written and no pump has read
  \* One Connect of a client without a pool: its credentials
  aMethod,     \* config.AuthMethod
  aPassword,   \* config.Password is not empty
  aKey,        \* the private key: "none", "bad" (does not load) or "good"
  aAgent,      \* SSH_AUTH_SOCK: "unset", "dead" (no agent answers) or "live"
  apos,        \* position of Connect: "start", "validated", "built", "failed"
  aerr,        \* the error Connect returns
  authList,    \* authMethods passed to ssh.ClientConfig
  \* The session's rule
  idleTimeout, \* tm.config.IdleTimeout: 0 when the rule sets none
  \* SessionManager.Close and the manager lock
  smMu,        \* holder of sm.mu as a writer: "none" or "Close"
  closePc,     \* position of the Close call
  closeSeen,   \* sessions the range loop of Close has visited
  spc          \* the session each StopSession caller looks up (0: no call)

poolVars   == <<pool, conn, connKey>>
clientVars == <<ckey, cclient, cconnected, cpc, ctmp, cres>>
sessVars   == <<inMap, status, pc, dpc, stopChan, cancelled, lastError,
                reqRetries, attempt, sessActive, sessReconn, stops>>
tunVars    == <<running, tstop, listener, acc, tconn>>
trafVars   == <<ttype, peerLost, hpc, tmTotal, tmActive, tmFailed>>
splVars    == <<cp, why, closed, eof, pending, dropped, age, idle,
                moved, bytesSent, bytesReceived>>
hkVars     == <<knownHosts, hkHost, hkKey, hkResult>>
bindVars   == <<bindCfg, allowRemote, bindPort, boundAddr>>
socksVars  == <<sreq, targetAddr>>
termVars   == <<termIn, termDone, hpos, hnext, sshSess, sshCur, wsOpen, ppc, wsMutex,
                outBuf>>
authVars   == <<aMethod, aPassword, aKey, aAgent, apos, aerr, authList>>
ruleVars   == <<idleTimeout>>
mgrVars    == <<smMu, closePc, closeSeen, spc>>
moreVars   == <<bindVars, socksVars, termVars, authVars, ruleVars, mgrVars>>
restBind == <<socksVars, termVars, authVars, ruleVars, mgrVars>>
restSocks == <<bindVars, termVars, authVars, ruleVars, mgrVars>>
restTerm == <<bindVars, socksVars, authVars, ruleVars, mgrVars>>
restAuth == <<bindVars, socksVars, termVars, ruleVars, mgrVars>>
restRule == <<bindVars, socksVars, termVars, authVars, mgrVars>>
restMgr == <<bindVars, socksVars, termVars, authVars, ruleVars>>
\* What the session manager's own steps leave alone.
extVars    == <<maxSize, trafVars, splVars, hkVars, moreVars>>
vars       == <<pool, conn, connKey, ckey, cclient, cconnected, cpc, ctmp, cres,
                inMap, status, pc, dpc, stopChan, cancelled, lastError,
                reqRetries, attempt, sessActive, sessReconn, stops,
                running, tstop, listener, acc, tconn,
                maxSize, ttype, peerLost, hpc, tmTotal, tmActive, tmFailed,
                cp, why, closed, eof, pending, dropped, age, idle,
                moved, bytesSent, bytesReceived,
                knownHosts, hkHost, hkKey, hkResult,
                bindCfg, allowRemote, bindPort, boundAddr,
                sreq, targetAddr,
                termIn, termDone, hpos, hnext, sshSess, sshCur, wsOpen, ppc, wsMutex,
                outBuf,
                aMethod, aPassword, aKey, aAgent, apos, aerr, authList,
                idleTimeout,
                smMu, closePc, closeSeen, spc>>

\* ------------------------------------------------------- ConnectionPool

\* getConnectionKey: "user@host:port"; a client's config is kept as that key.
getConnectionKey(c) == ckey[c]

HasKey(p, k) == \E e \in p : e.key = k
EntryOf(p, k) == CHOOSE e \in p : e.key = k

\* Mutant of MapAssign: the new entry is added beside the old one.
MapAssignKeepOld(p, k, e) == p \cup {e}

\* Go map assignment cp.connections[key] = e: replaces whatever was under key.
MapAssign(p, k, e) == {x \in p : x.key # k} \cup {e}

\* Go delete(cp.connections, key).
MapDelete(p, k) == {x \in p : x.key # k}

\* ConnectionPool.Get: the client handed out, Nil for each of the three errors.
GetResult(p, k) ==
  IF ~HasKey(p, k) THEN Nil
  ELSE IF EntryOf(p, k).inUse THEN Nil
  ELSE EntryOf(p, k).client

\* ConnectionPool.Get: the pool afterwards.
GetPool(p, k) ==
  IF ~HasKey(p, k) THEN p
  ELSE IF EntryOf(p, k).inUse THEN p
  ELSE IF EntryOf(p, k).client = Nil THEN MapDelete(p, k)
  ELSE MapAssign(p, k, [EntryOf(p, k) EXCEPT !.inUse = TRUE, !.expired = FALSE])

\* ConnectionPool.Put: a full pool closes the client and indexes nothing.
PutFull(p) == Cardinality(p) >= maxSize

PutPool(p, k, cl) ==
  IF PutFull(p) THEN p
  ELSE MapAssign(p, k, [key |-> k, client |-> cl, inUse |-> TRUE, expired |-> FALSE])

PutConn(p, cn, cl) ==
  IF PutFull(p) THEN [cn EXCEPT ![cl] = "closed"] ELSE cn

\* ConnectionPool.Return: a client that is not the indexed one is closed.
ReturnIndexed(p, k, cl) == HasKey(p, k) /\ EntryOf(p, k).client = cl

\* Mutant of ReturnPool: the entry stays marked in use.
ReturnPoolKeepInUse(p, k, cl) == p

ReturnPool(p, k, cl) ==
  IF ReturnIndexed(p, k, cl)
  THEN MapAssign(p, k, [EntryOf(p, k) EXCEPT !.inUse = FALSE, !.expired = FALSE])
  ELSE p

ReturnConn(p, cn, k, cl) ==
  IF ReturnIndexed(p, k, cl) THEN cn ELSE [cn EXCEPT ![cl] = "closed"]

\* The next unused transport identity, Nil when MaxConns handshakes are spent.
FreshConn == IF \E i \in ConnIds : conn[i] = "none"
             THEN CHOOSE i \in ConnIds : conn[i] = "none" /\ \A j \in ConnIds : j < i => conn[j] # "none"
             ELSE Nil

\* time.Now().Sub(conn.lastUsed) > cp.maxIdleTime becomes true for an entry.
Elapse ==
  /\ \E e \in pool :
       /\ ~e.expired
       /\ pool' = MapAssign(pool, e.key, [e EXCEPT !.expired = TRUE])
  /\ UNCHANGED <<conn, connKey>>
  /\ UNCHANGED <<clientVars, sessVars, tunVars>>
  /\ UNCHANGED extVars

\* Mutant of ShouldRemove: idleness alone decides.
ShouldRemoveIdle(e) == e.expired

\* One sweep of ConnectionPool.cleanup under cp.mu.
ShouldRemove(e) == ~e.inUse /\ e.expired

Cleanup ==
  /\ \E e \in pool : ShouldRemove(e)
  /\ pool' = {e \in pool : ~ShouldRemove(e)}
  /\ conn' = [i \in ConnIds |->
                IF \E e \in pool : ShouldRemove(e) /\ e.client = i
                THEN "closed" ELSE conn[i]]
  /\ UNCHANGED connKey
  /\ UNCHANGED <<clientVars, sessVars, tunVars>>
  /\ UNCHANGED extVars

\* ConnectionPool.Close: every indexed client is closed and removed.
PoolClose ==
  /\ pool # {}
  /\ pool' = {}
  /\ conn' = [i \in ConnIds |->
                IF \E e \in pool : e.client = i THEN "closed" ELSE conn[i]]
  /\ UNCHANGED connKey
  /\ UNCHANGED <<clientVars, sessVars, tunVars>>
  /\ UNCHANGED extVars

\* The peer or the network drops an SSH transport; nothing in the client notices.
TransportDies ==
  /\ \E i \in ConnIds :
       /\ conn[i] = "open"
       /\ conn' = [conn EXCEPT ![i] = "dead"]
  /\ UNCHANGED <<pool, connKey>>
  /\ UNCHANGED <<clientVars, sessVars, tunVars>>
  /\ UNCHANGED extVars

\* ------------------------------------------------------------ SSHClient

\* IsConnected: c.connected && c.client != nil (under c.mu.RLock).
IsConnected(c) == cconnected[c] /\ cclient[c] # Nil

\* c.mu is free: no Connect call is in progress on c.
Unlocked(c) == cpc[c] = "idle"

\* Connect, first critical section: the early return, then pool.Get.
ConnectGet(c) ==
  /\ cpc[c] = "get"
  /\ IF IsConnected(c)
     THEN /\ cpc' = [cpc EXCEPT ![c] = "idle"]
          /\ cres' = [cres EXCEPT ![c] = "ok"]
          /\ UNCHANGED <<pool, cclient, cconnected>>
     ELSE /\ pool' = GetPool(pool, getConnectionKey(c))
          /\ IF GetResult(pool, getConnectionKey(c)) # Nil
             THEN /\ cclient' = [cclient EXCEPT ![c] = GetResult(pool, getConnectionKey(c))]
                  /\ cconnected' = [cconnected EXCEPT ![c] = TRUE]
                  /\ cpc' = [cpc EXCEPT ![c] = "idle"]
                  /\ cres' = [cres EXCEPT ![c] = "ok"]
             ELSE /\ cpc' = [cpc EXCEPT ![c] = "dial"]
                  /\ UNCHANGED <<cclient, cconnected, cres>>
  /\ UNCHANGED <<conn, connKey, ckey, ctmp>>
  /\ UNCHANGED <<sessVars, tunVars>>
  /\ UNCHANGED extVars

\* createConnection up to ssh.NewClient: the dial and the handshake succeed ...
ConnectDialOk(c) ==
  /\ cpc[c] = "dial"
  /\ ~cancelled[c]
  /\ FreshConn # Nil
  /\ conn' = [conn EXCEPT ![FreshConn] = "open"]
  /\ connKey' = [connKey EXCEPT ![FreshConn] = getConnectionKey(c)]
  /\ ctmp' = [ctmp EXCEPT ![c] = FreshConn]
  /\ cpc' = [cpc EXCEPT ![c] = "put"]
  /\ UNCHANGED <<pool, ckey, cclient, cconnected, cres>>
  /\ UNCHANGED <<sessVars, tunVars>>
  /\ UNCHANGED extVars

\* ... or fail (no auth method, dial error, cancelled ctx, handshake error).
ConnectDialFail(c) ==
  /\ cpc[c] = "dial"
  /\ cpc' = [cpc EXCEPT ![c] = "idle"]
  /\ cres' = [cres EXCEPT ![c] = "err"]
  /\ UNCHANGED <<pool, conn, connKey, ckey, cclient, cconnected, ctmp>>
  /\ UNCHANGED <<sessVars, tunVars>>
  /\ UNCHANGED extVars

\* createConnection's pool.Put, then Connect's c.client = client; c.connected = true.
ConnectPut(c) ==
  /\ cpc[c] = "put"
  /\ pool' = PutPool(pool, getConnectionKey(c), ctmp[c])
  /\ conn' = PutConn(pool, conn, ctmp[c])
  /\ cclient' = [cclient EXCEPT ![c] = ctmp[c]]
  /\ cconnected' = [cconnected EXCEPT ![c] = TRUE]
  /\ ctmp' = [ctmp EXCEPT ![c] = Nil]
  /\ cpc' = [cpc EXCEPT ![c] = "idle"]
  /\ cres' = [cres EXCEPT ![c] = "ok"]
  /\ UNCHANGED <<connKey, ckey>>
  /\ UNCHANGED <<sessVars, tunVars>>
  /\ UNCHANGED extVars

\* SSHClient.Disconnect of a pool-backed client, as an update of the client
\* and pool variables (the caller adds what else it changes).
DisconnectEffect(c) ==
  IF IsConnected(c)
  THEN /\ pool' = ReturnPool(pool, getConnectionKey(c), cclient[c])
       /\ conn' = ReturnConn(pool, conn, getConnectionKey(c), cclient[c])
       /\ cclient' = [cclient EXCEPT ![c] = Nil]
       /\ cconnected' = [cconnected EXCEPT ![c] = FALSE]
  ELSE UNCHANGED <<pool, conn, cclient, cconnected>>

\* A caller outside the session manager starts Connect on its client.
ClientConnect(c) ==
  /\ Unlocked(c)
  /\ cpc' = [cpc EXCEPT ![c] = "get"]
  /\ cres' = [cres EXCEPT ![c] = "none"]
  /\ UNCHANGED <<ckey, cclient, cconnected, ctmp>>
  /\ UNCHANGED <<poolVars, sessVars, tunVars>>
  /\ UNCHANGED extVars

\* A caller outside the session manager calls Disconnect on its client.
ClientDisconnect(c) ==
  /\ Unlocked(c)
  /\ IsConnected(c)
  /\ DisconnectEffect(c)
  /\ cres' = [cres EXCEPT ![c] = "none"]
  /\ UNCHANGED <<connKey, ckey, cpc, ctmp>>
  /\ UNCHANGED <<sessVars, tunVars>>
  /\ UNCHANGED extVars

\* ------------------------------------------------------ initial states

InitPoolVars ==
  /\ pool = {}
  /\ conn = [i \in ConnIds |-> "none"]
  /\ connKey = [i \in ConnIds |-> NoKey]

InitClientVars ==
  /\ cclient = [c \in Ids |-> Nil]
  /\ cconnected = [c \in Ids |-> FALSE]
  /\ cpc = [c \in Ids |-> "idle"]
  /\ ctmp = [c \in Ids |-> Nil]
  /\ cres = [c \in Ids |-> "none"]

InitSessVars ==
  /\ inMap = [s \in Ids |-> FALSE]
  /\ status = [s \in Ids |-> "None"]
  /\ pc = [s \in Ids |-> "idle"]
  /\ dpc = [s \in Ids |-> "idle"]
  /\ stopChan = [s \in Ids |-> 0]
  /\ cancelled = [s \in Ids |-> FALSE]
  /\ lastError = [s \in Ids |-> "none"]
  /\ reqRetries = [s \in Ids |-> 0]
  /\ attempt = [s \in Ids |-> 0]
  /\ sessActive = [s \in Ids |-> 0]
  /\ sessReconn = [s \in Ids |-> 0]
  /\ stops = [s \in Ids |-> 0]

InitTunVars ==
  /\ running = [s \in Ids |-> 0]
  /\ tstop = [s \in Ids |-> FALSE]
  /\ listener = [s \in Ids |-> FALSE]
  /\ acc = [s \in Ids |-> "none"]
  /\ tconn = [s \in Ids |-> "none"]

\* No client traffic on any tunnel yet.
InitTrafVars ==
  /\ ttype = "none"
  /\ peerLost = FALSE
  /\ hpc = [h \in Slots |-> "none"]
  /\ tmTotal = 0
  /\ tmActive = 0
  /\ tmFailed = 0

\* No transfer call has been made.
InitSplVars ==
  /\ cp = [d \in Dirs |-> "none"]
  /\ why = [d \in Dirs |-> "none"]
  /\ closed = [x \in Sides |-> FALSE]
  /\ eof = [x \in Sides |-> FALSE]
  /\ pending = [x \in Sides |-> 0]
  /\ dropped = [x \in Sides |-> 0]
  /\ age = 0
  /\ idle = 0
  /\ moved = [d \in Dirs |-> 0]
  /\ bytesSent = 0
  /\ bytesReceived = 0

\* No rule configured and no listener bound.
InitBindVars ==
  /\ bindCfg = ""
  /\ allowRemote = FALSE
  /\ bindPort = 0
  /\ boundAddr = <<"none", 0>>

\* No client has sent a request and no handler has a target.
InitSocksVars ==
  /\ sreq = [h \in Slots |-> "none"]
  /\ targetAddr = [h \in Slots |-> "none"]

\* HandleTerminalConnection has registered the session and waits for the first message.
InitTermVars ==
  /\ termIn = TRUE
  /\ termDone = FALSE
  /\ hpos = "read"
  /\ hnext = "read"
  /\ sshSess = [g \in Gens |-> "none"]
  /\ sshCur = 0
  /\ wsOpen = TRUE
  /\ ppc = [p \in Pumps |-> "none"]
  /\ wsMutex = NoHolder
  /\ outBuf = [p \in Pumps |-> 0]

\* A client whose Connect has not been called; no credential configured.
InitAuthVars ==
  /\ aMethod = "password"
  /\ aPassword = FALSE
  /\ aKey = "none"
  /\ aAgent = "unset"
  /\ apos = "start"
  /\ aerr = "none"
  /\ authList = <<>>

\* The rule carries the idle timeout the transfer model uses.
InitRuleVars ==
  /\ idleTimeout = IdleTimeout

\* No Close call, the manager lock free.
InitMgrVars ==
  /\ smMu = "none"
  /\ closePc = "idle"
  /\ closeSeen = {}
  /\ spc = [c \in Callers |-> 0]

InitMoreVars ==
  /\ InitBindVars
  /\ InitSocksVars
  /\ InitTermVars
  /\ InitAuthVars
  /\ InitRuleVars
  /\ InitMgrVars

InitRestBind ==
  /\ InitSocksVars
  /\ InitTermVars
  /\ InitAuthVars
  /\ InitRuleVars
  /\ InitMgrVars

InitRestSocks ==
  /\ InitBindVars
  /\ InitTermVars
  /\ InitAuthVars
  /\ InitRuleVars
  /\ InitMgrVars

InitRestTerm ==
  /\ InitBindVars
  /\ InitSocksVars
  /\ InitAuthVars
  /\ InitRuleVars
  /\ InitMgrVars

InitRestAuth ==
  /\ InitBindVars
  /\ InitSocksVars
  /\ InitTermVars
  /\ InitRuleVars
  /\ InitMgrVars

InitRestRule ==
  /\ InitBindVars
  /\ InitSocksVars
  /\ InitTermVars
  /\ InitAuthVars
  /\ InitMgrVars

InitRestMgr ==
  /\ InitBindVars
  /\ InitSocksVars
  /\ InitTermVars
  /\ InitAuthVars
  /\ InitRuleVars

\* An empty known-hosts file and no connection verified.
InitHkVars ==
  /\ knownHosts = <<>>
  /\ hkHost = "none"
  /\ hkKey = "none"
  /\ hkResult = "none"

\* NewConnectionPool and NewSSHClientWithPool: an empty pool, clients of any keys.
PoolInit ==
  /\ InitPoolVars
  /\ InitClientVars
  /\ ckey \in [Ids -> Keys]
  /\ InitSessVars
  /\ InitTunVars
  /\ maxSize \in 1..MaxSize
  /\ InitTrafVars
  /\ InitSplVars
  /\ InitHkVars
  /\ InitMoreVars


\* -------------------------------------------------------- TunnelManager

\* tm.stats.ActiveConnections: handlers between their increment and decrement.
TmActive(s) == IF tconn[s] \in {"open", "closed"} THEN 1 ELSE 0

\* IsRunning: atomic.LoadInt32(&tm.running) == 1.
IsRunning(s) == running[s] = 1

\* The rule's listener was bound at some time in the past.
TunnelStarted(s) == listener[s] \/ tstop[s] \/ acc[s] # "none"

\* handleLocalConnections, top of the loop: return when stopChan is closed.
AcceptLoopTop(s) ==
  /\ acc[s] = "top"
  /\ acc' = [acc EXCEPT ![s] = IF tstop[s] THEN "none" ELSE "accept"]
  /\ UNCHANGED <<running, tstop, listener, tconn>>
  /\ UNCHANGED <<poolVars, clientVars, sessVars>>
  /\ UNCHANGED extVars

\* listener.Accept returns a client connection: wg.Add(1); go handleLocalConnection.
AcceptConn(s) ==
  /\ acc[s] = "accept"
  /\ listener[s]
  /\ tconn[s] = "none"
  /\ tconn' = [tconn EXCEPT ![s] = "spawned"]
  /\ acc' = [acc EXCEPT ![s] = "top"]
  /\ UNCHANGED <<running, tstop, listener>>
  /\ UNCHANGED <<poolVars, clientVars, sessVars>>
  /\ UNCHANGED extVars

\* listener.Accept returns an error: the 1 s deadline (continue), or the listener
\* is closed (return when running is 0, else log and continue).
AcceptError(s) ==
  /\ acc[s] = "accept"
  /\ acc' = [acc EXCEPT ![s] = IF ~listener[s] /\ running[s] = 0 THEN "none" ELSE "top"]
  /\ UNCHANGED <<running, tstop, listener, tconn>>
  /\ UNCHANGED <<poolVars, clientVars, sessVars>>
  /\ UNCHANGED extVars

\* handleLocalConnection: connections.Store, ActiveConnections++, GetClient and
\* sshClient.Dial.  The channel opens only over a live transport; on any failure
\* the handler is left to run its deferred calls.
DialPossible(s) == cclient[s] # Nil /\ conn[cclient[s]] = "open"

HandlerRegister(s) ==
  /\ tconn[s] = "spawned"
  /\ Unlocked(s)
  /\ \/ /\ DialPossible(s)
        /\ tconn' = [tconn EXCEPT ![s] = "open"]
     \/ tconn' = [tconn EXCEPT ![s] = "closed"]
  /\ UNCHANGED <<running, tstop, listener, acc>>
  /\ UNCHANGED <<poolVars, clientVars, sessVars>>
  /\ UNCHANGED extVars

\* transfer ends without Stop: a peer closes, the idle deadline passes or the
\* transport is gone.
HandlerPeerClose(s) ==
  /\ tconn[s] = "open"
  /\ tconn' = [tconn EXCEPT ![s] = "closed"]
  /\ UNCHANGED <<running, tstop, listener, acc>>
  /\ UNCHANGED <<poolVars, clientVars, sessVars>>
  /\ UNCHANGED extVars

\* The handler's deferred calls: ActiveConnections--, connections.Delete, wg.Done.
HandlerExit(s) ==
  /\ tconn[s] = "closed"
  /\ tconn' = [tconn EXCEPT ![s] = "none"]
  /\ UNCHANGED <<running, tstop, listener, acc>>
  /\ UNCHANGED <<poolVars, clientVars, sessVars>>
  /\ UNCHANGED extVars

\* ------------------------------------------------------- SessionManager

\* applyDefaultSSHConfig: MaxRetries 0 is replaced by the manager's value.
applyDefaultSSHConfig(r) == IF r = 0 THEN SmMaxRetries ELSE r

EffectiveRetries(s) == applyDefaultSSHConfig(reqRetries[s])

\* updateSessionStats: while the tunnel runs, session.Stats is overwritten by
\* the tunnel's statistics, whose ReconnectCount is never written.
StatsAfterUpdate(s, field, tunnel) ==
  IF IsRunning(s) THEN [field EXCEPT ![s] = tunnel] ELSE field

\* CreateSession: a new session in Created with its own client and tunnel.
CreateSession(s) ==
  /\ status[s] = "None"
  /\ \A t \in Ids : t < s => status[t] # "None"
  /\ \E k \in Keys, r \in 0..MaxRetriesReq :
       /\ ckey' = [ckey EXCEPT ![s] = k]
       /\ reqRetries' = [reqRetries EXCEPT ![s] = r]
  /\ inMap' = [inMap EXCEPT ![s] = TRUE]
  /\ status' = [status EXCEPT ![s] = "Created"]
  /\ UNCHANGED <<pc, dpc, stopChan, cancelled, lastError, attempt, sessActive,
                 sessReconn, stops>>
  /\ UNCHANGED <<cclient, cconnected, cpc, ctmp, cres>>
  /\ UNCHANGED <<poolVars, tunVars>>
  /\ UNCHANGED extVars

\* StartSession: accepted in Created and in Stopped; go sm.runSession.
StartAllowed(st) == st \in {"Created", "Stopped"}

StartSession(s) ==
  /\ inMap[s]
  /\ StartAllowed(status[s])
  /\ pc[s] = "idle"
  /\ status' = [status EXCEPT ![s] = "Connecting"]
  /\ pc' = [pc EXCEPT ![s] = "run"]
  /\ UNCHANGED <<inMap, dpc, stopChan, cancelled, lastError, reqRetries, attempt,
                 sessActive, sessReconn, stops>>
  /\ UNCHANGED <<poolVars, clientVars, tunVars>>
  /\ UNCHANGED extVars

\* runSession: Status = Connecting, then sshClient.Connect is entered.
RunBegin(s) ==
  /\ pc[s] = "run"
  /\ Unlocked(s)
  /\ status' = [status EXCEPT ![s] = "Connecting"]
  /\ cpc' = [cpc EXCEPT ![s] = "get"]
  /\ cres' = [cres EXCEPT ![s] = "none"]
  /\ pc' = [pc EXCEPT ![s] = "r_wait"]
  /\ UNCHANGED <<inMap, dpc, stopChan, cancelled, lastError, reqRetries, attempt,
                 sessActive, sessReconn, stops>>
  /\ UNCHANGED <<ckey, cclient, cconnected, ctmp>>
  /\ UNCHANGED <<poolVars, tunVars>>
  /\ UNCHANGED extVars

\* runSession: Connect failed: Status = Error, LastError set, return.
RunConnectFailed(s) ==
  /\ pc[s] = "r_wait"
  /\ Unlocked(s)
  /\ cres[s] = "err"
  /\ status' = [status EXCEPT ![s] = "Error"]
  /\ lastError' = [lastError EXCEPT ![s] = "connect"]
  /\ pc' = [pc EXCEPT ![s] = "idle"]
  /\ UNCHANGED <<inMap, dpc, stopChan, cancelled, reqRetries, attempt,
                 sessActive, sessReconn, stops>>
  /\ UNCHANGED <<poolVars, clientVars, tunVars>>
  /\ UNCHANGED extVars

\* runSession: Connect succeeded: Status = Connected.
RunConnected(s) ==
  /\ pc[s] = "r_wait"
  /\ Unlocked(s)
  /\ cres[s] = "ok"
  /\ status' = [status EXCEPT ![s] = "Connected"]
  /\ pc' = [pc EXCEPT ![s] = "ts"]
  /\ UNCHANGED <<inMap, dpc, stopChan, cancelled, lastError, reqRetries, attempt,
                 sessActive, sessReconn, stops>>
  /\ UNCHANGED <<poolVars, clientVars, tunVars>>
  /\ UNCHANGED extVars

\* TunnelManager.Start: the CompareAndSwap of running, then IsConnected and,
\* for a client that is not connected, Connect.
TunnelStart(s) ==
  /\ pc[s] = "ts"
  /\ Unlocked(s)
  /\ IF running[s] # 0
     THEN /\ pc' = [pc EXCEPT ![s] = "ts_fail"]
          /\ UNCHANGED <<running, cpc, cres>>
     ELSE /\ running' = [running EXCEPT ![s] = 1]
          /\ IF IsConnected(s)
             THEN /\ pc' = [pc EXCEPT ![s] = "ts_listen"]
                  /\ UNCHANGED <<cpc, cres>>
             ELSE /\ pc' = [pc EXCEPT ![s] = "ts_wait"]
                  /\ cpc' = [cpc EXCEPT ![s] = "get"]
                  /\ cres' = [cres EXCEPT ![s] = "none"]
  /\ UNCHANGED <<inMap, status, dpc, stopChan, cancelled, lastError, reqRetries,
                 attempt, sessActive, sessReconn, stops>>
  /\ UNCHANGED <<ckey, cclient, cconnected, ctmp>>
  /\ UNCHANGED <<tstop, listener, acc, tconn>>
  /\ UNCHANGED poolVars
  /\ UNCHANGED extVars

\* TunnelManager.Start: its own Connect returned.
TunnelStartConnect(s) ==
  /\ pc[s] = "ts_wait"
  /\ Unlocked(s)
  /\ cres[s] # "none"
  /\ IF cres[s] = "ok"
     THEN /\ pc' = [pc EXCEPT ![s] = "ts_listen"]
          /\ UNCHANGED running
     ELSE /\ pc' = [pc EXCEPT ![s] = "ts_fail"]
          /\ running' = [running EXCEPT ![s] = 0]
  /\ UNCHANGED <<inMap, status, dpc, stopChan, cancelled, lastError, reqRetries,
                 attempt, sessActive, sessReconn, stops>>
  /\ UNCHANGED <<tstop, listener, acc, tconn>>
  /\ UNCHANGED <<poolVars, clientVars>>
  /\ UNCHANGED extVars

\* startLocalForwarding: net.Listen binds, the accept loop is started.
TunnelListenOk(s) ==
  /\ pc[s] = "ts_listen"
  /\ ~listener[s]
  /\ acc[s] = "none"
  /\ listener' = [listener EXCEPT ![s] = TRUE]
  /\ acc' = [acc EXCEPT ![s] = "top"]
  /\ pc' = [pc EXCEPT ![s] = "ts_ok"]
  /\ UNCHANGED <<inMap, status, dpc, stopChan, cancelled, lastError, reqRetries,
                 attempt, sessActive, sessReconn, stops>>
  /\ UNCHANGED <<running, tstop, tconn>>
  /\ UNCHANGED <<poolVars, clientVars>>
  /\ UNCHANGED extVars

\* startLocalForwarding: net.Listen is refused; Start stores running = 0.
TunnelListenFail(s) ==
  /\ pc[s] = "ts_listen"
  /\ running' = [running EXCEPT ![s] = 0]
  /\ pc' = [pc EXCEPT ![s] = "ts_fail"]
  /\ UNCHANGED <<inMap, status, dpc, stopChan, cancelled, lastError, reqRetries,
                 attempt, sessActive, sessReconn, stops>>
  /\ UNCHANGED <<tstop, listener, acc, tconn>>
  /\ UNCHANGED <<poolVars, clientVars>>
  /\ UNCHANGED extVars

\* runSession: tunnelMgr.Start failed: Status = Error, LastError set.
RunTunnelFailed(s) ==
  /\ pc[s] = "ts_fail"
  /\ status' = [status EXCEPT ![s] = "Error"]
  /\ lastError' = [lastError EXCEPT ![s] = "tunnel"]
  /\ pc' = [pc EXCEPT ![s] = "ts_disc"]
  /\ UNCHANGED <<inMap, dpc, stopChan, cancelled, reqRetries, attempt,
                 sessActive, sessReconn, stops>>
  /\ UNCHANGED <<poolVars, clientVars, tunVars>>
  /\ UNCHANGED extVars

\* runSession: ... then sshClient.Disconnect and return.
RunTunnelFailDisconnect(s) ==
  /\ pc[s] = "ts_disc"
  /\ Unlocked(s)
  /\ DisconnectEffect(s)
  /\ pc' = [pc EXCEPT ![s] = "idle"]
  /\ UNCHANGED <<inMap, status, dpc, stopChan, cancelled, lastError, reqRetries,
                 attempt, sessActive, sessReconn, stops>>
  /\ UNCHANGED <<connKey, ckey, cpc, ctmp, cres>>
  /\ UNCHANGED tunVars
  /\ UNCHANGED extVars

\* runSession: tunnelMgr.Start returned nil: Status = Active; monitorSession.
RunActive(s) ==
  /\ pc[s] = "ts_ok"
  /\ status' = [status EXCEPT ![s] = "Active"]
  /\ pc' = [pc EXCEPT ![s] = "mon"]
  /\ UNCHANGED <<inMap, dpc, stopChan, cancelled, lastError, reqRetries, attempt,
                 sessActive, sessReconn, stops>>
  /\ UNCHANGED <<poolVars, clientVars, tunVars>>
  /\ UNCHANGED extVars

\* monitorSession, case <-ms.ctx.Done(): return, nothing else.
MonitorCtxDone(s) ==
  /\ pc[s] = "mon"
  /\ cancelled[s]
  /\ pc' = [pc EXCEPT ![s] = "idle"]
  /\ UNCHANGED <<inMap, status, dpc, stopChan, cancelled, lastError, reqRetries,
                 attempt, sessActive, sessReconn, stops>>
  /\ UNCHANGED <<poolVars, clientVars, tunVars>>
  /\ UNCHANGED extVars

\* monitorSession, case <-ms.session.StopChan: the token is taken; stopSession.
MonitorStopRequested(s) ==
  /\ pc[s] = "mon"
  /\ stopChan[s] = 1
  /\ stopChan' = [stopChan EXCEPT ![s] = 0]
  /\ pc' = [pc EXCEPT ![s] = "ss_begin"]
  /\ UNCHANGED <<inMap, status, dpc, cancelled, lastError, reqRetries,
                 attempt, sessActive, sessReconn, stops>>
  /\ UNCHANGED <<poolVars, clientVars, tunVars>>
  /\ UNCHANGED extVars

\* monitorSession, case <-ticker.C: updateSessionStats, then the health check
\* IsConnected, which reads the client's own flag and never probes the transport.
Min(a, b) == IF a < b THEN a ELSE b

MonitorTick(s) ==
  /\ pc[s] = "mon"
  /\ Unlocked(s)
  /\ sessActive' = StatsAfterUpdate(s, sessActive, TmActive(s))
  /\ IF IsConnected(s)
     THEN /\ sessReconn' = StatsAfterUpdate(s, sessReconn, 0)
          /\ UNCHANGED <<status, pc>>
     ELSE /\ status' = [status EXCEPT ![s] = "Connecting"]
          /\ sessReconn' = [sessReconn EXCEPT ![s] =
                 Min(StatsAfterUpdate(s, sessReconn, 0)[s] + 1, MaxReconnects)]
          /\ pc' = [pc EXCEPT ![s] = "rc_disc"]
  /\ UNCHANGED <<inMap, dpc, stopChan, cancelled, lastError, reqRetries, attempt, stops>>
  /\ UNCHANGED <<poolVars, clientVars, tunVars>>
  /\ UNCHANGED extVars

\* Reconnect: Disconnect first; the loop index starts at 0.
ReconnectDisconnect(s) ==
  /\ pc[s] = "rc_disc"
  /\ Unlocked(s)
  /\ DisconnectEffect(s)
  /\ attempt' = [attempt EXCEPT ![s] = 0]
  /\ pc' = [pc EXCEPT ![s] = "rc_loop"]
  /\ UNCHANGED <<inMap, status, dpc, stopChan, cancelled, lastError, reqRetries,
                 sessActive, sessReconn, stops>>
  /\ UNCHANGED <<connKey, ckey, cpc, ctmp, cres>>
  /\ UNCHANGED tunVars
  /\ UNCHANGED extVars

\* Reconnect: for i := 0; i < c.config.MaxRetries; i++ { Connect ... }; after
\* the loop the error "failed to reconnect after N attempts" is returned.
ReconnectLoop(s) ==
  /\ pc[s] = "rc_loop"
  /\ Unlocked(s)
  /\ IF attempt[s] < EffectiveRetries(s)
     THEN /\ cpc' = [cpc EXCEPT ![s] = "get"]
          /\ cres' = [cres EXCEPT ![s] = "none"]
          /\ pc' = [pc EXCEPT ![s] = "rc_wait"]
     ELSE /\ pc' = [pc EXCEPT ![s] = "rc_exhausted"]
          /\ UNCHANGED <<cpc, cres>>
  /\ UNCHANGED <<inMap, status, dpc, stopChan, cancelled, lastError, reqRetries,
                 attempt, sessActive, sessReconn, stops>>
  /\ UNCHANGED <<ckey, cclient, cconnected, ctmp>>
  /\ UNCHANGED <<poolVars, tunVars>>
  /\ UNCHANGED extVars

\* Reconnect: one attempt returned.  A failed attempt that is not the last one
\* is followed by the wait for RetryInterval.
ReconnectAttempt(s) ==
  /\ pc[s] = "rc_wait"
  /\ Unlocked(s)
  /\ cres[s] # "none"
  /\ IF cres[s] = "ok"
     THEN /\ pc' = [pc EXCEPT ![s] = "rc_ok"]
          /\ UNCHANGED attempt
     ELSE IF attempt[s] < EffectiveRetries(s) - 1
     THEN /\ pc' = [pc EXCEPT ![s] = "rc_backoff"]
          /\ UNCHANGED attempt
     ELSE /\ pc' = [pc EXCEPT ![s] = "rc_loop"]
          /\ attempt' = [attempt EXCEPT ![s] = attempt[s] + 1]
  /\ UNCHANGED <<inMap, status, dpc, stopChan, cancelled, lastError, reqRetries,
                 sessActive, sessReconn, stops>>
  /\ UNCHANGED <<poolVars, clientVars, tunVars>>
  /\ UNCHANGED extVars

\* Reconnect: select { case <-time.After(RetryInterval): case <-ctx.Done(): }.
ReconnectBackoff(s) ==
  /\ pc[s] = "rc_backoff"
  /\ \/ /\ pc' = [pc EXCEPT ![s] = "rc_loop"]
        /\ attempt' = [attempt EXCEPT ![s] = attempt[s] + 1]
     \/ /\ cancelled[s]
        /\ pc' = [pc EXCEPT ![s] = "rc_ctx"]
        /\ UNCHANGED attempt
  /\ UNCHANGED <<inMap, status, dpc, stopChan, cancelled, lastError, reqRetries,
                 sessActive, sessReconn, stops>>
  /\ UNCHANGED <<poolVars, clientVars, tunVars>>
  /\ UNCHANGED extVars

\* monitorSession: Reconnect returned nil: Status = Active, back to the select.
MonitorReconnected(s) ==
  /\ pc[s] = "rc_ok"
  /\ status' = [status EXCEPT ![s] = "Active"]
  /\ pc' = [pc EXCEPT ![s] = "mon"]
  /\ UNCHANGED <<inMap, dpc, stopChan, cancelled, lastError, reqRetries, attempt,
                 sessActive, sessReconn, stops>>
  /\ UNCHANGED <<poolVars, clientVars, tunVars>>
  /\ UNCHANGED extVars

\* monitorSession: Reconnect returned an error: Status = Error, LastError set,
\* then stopSession.
MonitorReconnectFailed(s) ==
  /\ pc[s] \in {"rc_exhausted", "rc_ctx"}
  /\ status' = [status EXCEPT ![s] = "Error"]
  /\ lastError' = [lastError EXCEPT ![s] =
                     IF pc[s] = "rc_exhausted" THEN "retries_exhausted" ELSE "ctx"]
  /\ pc' = [pc EXCEPT ![s] = "ss_begin"]
  /\ UNCHANGED <<inMap, dpc, stopChan, cancelled, reqRetries, attempt,
                 sessActive, sessReconn, stops>>
  /\ UNCHANGED <<poolVars, clientVars, tunVars>>
  /\ UNCHANGED extVars

\* stopSession runs in the runSession goroutine ("sup") or in the caller of
\* DeleteSession ("del"); both can be inside it at once.
PcOf(s, who) == IF who = "sup" THEN pc[s] ELSE dpc[s]

Goto(s, who, next) ==
  IF who = "sup"
  THEN pc' = [pc EXCEPT ![s] = next] /\ UNCHANGED dpc
  ELSE dpc' = [dpc EXCEPT ![s] = next] /\ UNCHANGED pc

\* stopSession: Status = Stopping.
StopSessionBegin(s, who) ==
  /\ PcOf(s, who) = "ss_begin"
  /\ status' = [status EXCEPT ![s] = "Stopping"]
  /\ Goto(s, who, "ss_tunnel")
  /\ UNCHANGED <<inMap, stopChan, cancelled, lastError, reqRetries, attempt,
                 sessActive, sessReconn, stops>>
  /\ UNCHANGED <<poolVars, clientVars, tunVars>>
  /\ UNCHANGED extVars

\* stopSession: if tunnelMgr.IsRunning() { tunnelMgr.Stop() }.  Stop swaps
\* running to 0, closes stopChan, the listeners and the registered connections.
\* close of the channel closed by an earlier Stop panics: runSession's recover
\* sets Error, and DeleteSession's caller is unwound.
StopClosesConn(c) == IF c = "open" THEN "closed" ELSE c

StopSessionTunnel(s, who) ==
  /\ PcOf(s, who) = "ss_tunnel"
  /\ IF ~IsRunning(s)
     THEN /\ Goto(s, who, "ss_disc")
          /\ UNCHANGED <<status, lastError, tunVars>>
     ELSE /\ running' = [running EXCEPT ![s] = 0]
          /\ IF tstop[s]
             THEN /\ Goto(s, who, "idle")
                  /\ status' = IF who = "sup" THEN [status EXCEPT ![s] = "Error"] ELSE status
                  /\ lastError' = IF who = "sup" THEN [lastError EXCEPT ![s] = "panic"]
                                  ELSE lastError
                  /\ UNCHANGED <<tstop, listener, acc, tconn>>
             ELSE /\ tstop' = [tstop EXCEPT ![s] = TRUE]
                  /\ listener' = [listener EXCEPT ![s] = FALSE]
                  /\ tconn' = [tconn EXCEPT ![s] = StopClosesConn(tconn[s])]
                  /\ Goto(s, who, "ss_wait")
                  /\ UNCHANGED <<status, lastError, acc>>
  /\ UNCHANGED <<inMap, stopChan, cancelled, reqRetries, attempt,
                 sessActive, sessReconn, stops>>
  /\ UNCHANGED <<poolVars, clientVars>>
  /\ UNCHANGED extVars

\* TunnelManager.Stop: tm.wg.Wait() returns when the accept loop and every
\* handler have returned.
WaitGroupZero(s) == acc[s] = "none" /\ tconn[s] = "none"

StopSessionWait(s, who) ==
  /\ PcOf(s, who) = "ss_wait"
  /\ WaitGroupZero(s)
  /\ Goto(s, who, "ss_disc")
  /\ UNCHANGED <<inMap, status, stopChan, cancelled, lastError, reqRetries, attempt,
                 sessActive, sessReconn, stops>>
  /\ UNCHANGED <<poolVars, clientVars, tunVars>>
  /\ UNCHANGED extVars

\* stopSession: sshClient.Disconnect().
StopSessionDisconnect(s, who) ==
  /\ PcOf(s, who) = "ss_disc"
  /\ Unlocked(s)
  /\ DisconnectEffect(s)
  /\ Goto(s, who, "ss_final")
  /\ UNCHANGED <<inMap, status, stopChan, cancelled, lastError, reqRetries, attempt,
                 sessActive, sessReconn, stops>>
  /\ UNCHANGED <<connKey, ckey, cpc, ctmp, cres>>
  /\ UNCHANGED tunVars
  /\ UNCHANGED extVars

\* stopSession: Status = Stopped.  The goroutine then returns; DeleteSession's
\* caller goes on to cancel().
StopSessionFinal(s, who) ==
  /\ PcOf(s, who) = "ss_final"
  /\ status' = [status EXCEPT ![s] = "Stopped"]
  /\ Goto(s, who, IF who = "sup" THEN "idle" ELSE "d_cancel")
  /\ UNCHANGED <<inMap, stopChan, cancelled, lastError, reqRetries, attempt,
                 sessActive, sessReconn, stops>>
  /\ UNCHANGED <<poolVars, clientVars, tunVars>>
  /\ UNCHANGED extVars

\* StopSession: refused in Stopped and Stopping; otherwise a token is put in
\* StopChan, or, when the buffer is full, the context is cancelled.
StopRefused(st) == st \in {"Stopped", "Stopping"}

StopSession(s) ==
  /\ inMap[s]
  /\ ~StopRefused(status[s])
  /\ stops[s] < MaxStops
  /\ stops' = [stops EXCEPT ![s] = stops[s] + 1]
  /\ IF stopChan[s] = 0
     THEN stopChan' = [stopChan EXCEPT ![s] = 1] /\ UNCHANGED cancelled
     ELSE cancelled' = [cancelled EXCEPT ![s] = TRUE] /\ UNCHANGED stopChan
  /\ UNCHANGED <<inMap, status, pc, dpc, lastError, reqRetries, attempt,
                 sessActive, sessReconn>>
  /\ UNCHANGED <<poolVars, clientVars, tunVars>>
  /\ UNCHANGED extVars

\* Mutant of SessionsDelete: the session stays in the map.
SessionsKeep(m, s) == m

\* Go delete(sm.sessions, sessionID).
SessionsDelete(m, s) == [m EXCEPT ![s] = FALSE]

\* DeleteSession: the session leaves the map; stopSession unless it is Stopped.
DeleteSession(s) ==
  /\ inMap[s]
  /\ dpc[s] = "idle"
  /\ inMap' = SessionsDelete(inMap, s)
  /\ dpc' = [dpc EXCEPT ![s] = IF status[s] # "Stopped" THEN "ss_begin" ELSE "d_cancel"]
  /\ UNCHANGED <<status, pc, stopChan, cancelled, lastError, reqRetries, attempt,
                 sessActive, sessReconn, stops>>
  /\ UNCHANGED <<poolVars, clientVars, tunVars>>
  /\ UNCHANGED extVars

\* DeleteSession: managedSession.cancel().
DeleteCancel(s) ==
  /\ dpc[s] = "d_cancel"
  /\ cancelled' = [cancelled EXCEPT ![s] = TRUE]
  /\ dpc' = [dpc EXCEPT ![s] = "idle"]
  /\ UNCHANGED <<inMap, status, pc, stopChan, lastError, reqRetries, attempt,
                 sessActive, sessReconn, stops>>
  /\ UNCHANGED <<poolVars, clientVars, tunVars>>
  /\ UNCHANGED extVars

\* GetSessionStats: updateSessionStats, then the copy that is returned.
GetSessionStats(s) ==
  /\ inMap[s]
  /\ sessActive' = StatsAfterUpdate(s, sessActive, TmActive(s))
  /\ sessReconn' = StatsAfterUpdate(s, sessReconn, 0)
  /\ UNCHANGED <<inMap, status, pc, dpc, stopChan, cancelled, lastError, reqRetries,
                 attempt, stops>>
  /\ UNCHANGED <<poolVars, clientVars, tunVars>>
  /\ UNCHANGED extVars

\* ------------------------------------------------- SessionManager.Close
\* sm.mu is a sync.RWMutex: Lock waits for every holder, RLock waits for a
\* writer, and the holder of Lock is not exempt from the wait of RLock.

LockGranted(mu) == mu = "none"

RLockGranted(mu, caller) == mu = "none"

\* What the manager lock and Close leave alone.
MgrFrame == UNCHANGED <<maxSize, trafVars, splVars, hkVars, restMgr>>

\* CreateSession and StartSession take sm.mu for their map access.
LockedCreateSession(s) == LockGranted(smMu) /\ CreateSession(s)

LockedStartSession(s) == RLockGranted(smMu, "api") /\ StartSession(s)

\* The API layer calls StopSession(s).
ApiStopSession(s) ==
  /\ spc["api"] = 0
  /\ status[s] # "None"
  /\ stops[s] < MaxStops
  /\ spc' = [spc EXCEPT !["api"] = s]
  /\ UNCHANGED <<smMu, closePc, closeSeen>>
  /\ UNCHANGED <<poolVars, clientVars, sessVars, tunVars>>
  /\ MgrFrame

\* StopSession: sm.mu.RLock(), the map lookup, RUnlock; then the status test
\* and the stop signal.
SmStopSession(caller) ==
  /\ spc[caller] # 0
  /\ RLockGranted(smMu, caller)
  /\ LET s == spc[caller] IN
       IF inMap[s] /\ ~StopRefused(status[s])
       THEN /\ stops' = [stops EXCEPT ![s] = Min(stops[s] + 1, MaxStops)]
            /\ IF stopChan[s] = 0
               THEN stopChan' = [stopChan EXCEPT ![s] = 1] /\ UNCHANGED cancelled
               ELSE cancelled' = [cancelled EXCEPT ![s] = TRUE] /\ UNCHANGED stopChan
       ELSE UNCHANGED <<stops, stopChan, cancelled>>
  /\ spc' = [spc EXCEPT ![caller] = 0]
  /\ closeSeen' = IF caller = "Close" THEN closeSeen \cup {spc[caller]} ELSE closeSeen
  /\ UNCHANGED <<smMu, closePc>>
  /\ UNCHANGED <<inMap, status, pc, dpc, lastError, reqRetries, attempt,
                 sessActive, sessReconn>>
  /\ UNCHANGED <<poolVars, clientVars, tunVars>>
  /\ MgrFrame

\* Close: sm.mu.Lock(); defer sm.mu.Unlock().
CloseLock ==
  /\ closePc = "idle"
  /\ LockGranted(smMu)
  /\ smMu' = "Close"
  /\ closePc' = "range"
  /\ UNCHANGED <<closeSeen, spc>>
  /\ UNCHANGED <<poolVars, clientVars, sessVars, tunVars>>
  /\ MgrFrame

\* Close: for sessionID := range sm.sessions { sm.StopSession(sessionID) }.
CloseRange ==
  /\ closePc = "range"
  /\ spc["Close"] = 0
  /\ IF \E s \in Pair : inMap[s] /\ s \notin closeSeen
     THEN /\ \E s \in Pair :
               /\ inMap[s] /\ s \notin closeSeen
               /\ spc' = [spc EXCEPT !["Close"] = s]
          /\ UNCHANGED closePc
     ELSE /\ closePc' = "pool"
          /\ UNCHANGED spc
  /\ UNCHANGED <<smMu, closeSeen>>
  /\ UNCHANGED <<poolVars, clientVars, sessVars, tunVars>>
  /\ MgrFrame

\* Close: sm.connPool.Close(), return, the deferred Unlock.
ClosePool ==
  /\ closePc = "pool"
  /\ pool' = {}
  /\ conn' = [i \in ConnIds |->
                IF \E e \in pool : e.client = i THEN "closed" ELSE conn[i]]
  /\ closePc' = "done"
  /\ smMu' = "none"
  /\ UNCHANGED <<closeSeen, spc, connKey>>
  /\ UNCHANGED <<clientVars, sessVars, tunVars>>
  /\ MgrFrame

\* The Close call.
CloseCall ==
  \/ CloseLock
  \/ CloseRange
  \/ SmStopSession("Close")
  \/ ClosePool

CloseNext ==
  \/ \E s \in Pair : LockedCreateSession(s)
  \/ \E s \in Pair : LockedStartSession(s)
  \/ \E s \in Pair : ApiStopSession(s)
  \/ \E c \in Callers : SmStopSession(c)
  \/ CloseLock
  \/ CloseRange
  \/ ClosePool

\* ------------------------------------------- a tunnel under client traffic

\* The session whose tunnel is followed under traffic.
Tun == CHOOSE s \in Sessions : \A u \in Sessions : s <= u

\* The key and the transport of that session.
TunKey == "alice@gw:22"
TunConn == CHOOSE i \in ConnIds : \A j \in ConnIds : i <= j

\* handleLocalConnections / handleRemoteConnections: Accept returns a
\* connection; wg.Add(1); go handleLocalConnection / handleRemoteConnection.
\* Nothing is compared with tm.config.MaxConnections.
TrafficAccept(h) ==
  /\ acc[Tun] = "accept"
  /\ listener[Tun]
  /\ ttype = "remote" => ~peerLost
  /\ hpc[h] = "none"
  /\ hpc' = [hpc EXCEPT ![h] = "spawned"]
  /\ acc' = [acc EXCEPT ![Tun] = "top"]
  /\ UNCHANGED <<running, tstop, listener, tconn>>
  /\ UNCHANGED <<ttype, peerLost, tmTotal, tmActive, tmFailed>>
  /\ UNCHANGED <<poolVars, clientVars, sessVars, maxSize, splVars, hkVars, moreVars>>

\* handleRemoteConnections: Accept returns an error (the listener was closed
\* here or by the peer): return when running is 0, else log and continue.
RemoteAcceptError ==
  /\ ttype = "remote"
  /\ acc[Tun] = "accept"
  /\ peerLost \/ ~listener[Tun]
  /\ acc' = [acc EXCEPT ![Tun] = IF running[Tun] = 0 THEN "none" ELSE "top"]
  /\ UNCHANGED <<running, tstop, listener, tconn>>
  /\ UNCHANGED <<poolVars, clientVars, sessVars, extVars>>

\* handleLocalConnections: Accept returns an error.
LocalAcceptError ==
  /\ ttype = "local"
  /\ AcceptError(Tun)

\* The SSH peer closes the listener it opened for a remote rule.
PeerClosesListener ==
  /\ ttype = "remote"
  /\ ~peerLost
  /\ peerLost' = TRUE
  /\ UNCHANGED <<ttype, hpc, tmTotal, tmActive, tmFailed>>
  /\ UNCHANGED <<poolVars, clientVars, sessVars, tunVars, maxSize, splVars, hkVars, moreVars>>

\* The handler's first updateStats: TotalConnections++, ActiveConnections++
\* (after connections.Store).
HandlerCount(h) ==
  /\ hpc[h] = "spawned"
  /\ tmTotal < MaxTotal
  /\ tmTotal' = tmTotal + 1
  /\ tmActive' = tmActive + 1
  /\ hpc' = [hpc EXCEPT ![h] = "dial"]
  /\ UNCHANGED <<ttype, peerLost, tmFailed>>
  /\ UNCHANGED <<poolVars, clientVars, sessVars, tunVars, maxSize, splVars, hkVars, moreVars>>

\* A local rule dials through the session's transport: GetClient, sshClient.Dial.
\* A remote rule dials its local target with net.Dial.
HandlerDialOk(h) ==
  /\ hpc[h] = "dial"
  /\ ttype = "local" => DialPossible(Tun)
  /\ hpc' = [hpc EXCEPT ![h] = "splice"]
  /\ UNCHANGED <<ttype, peerLost, tmTotal, tmActive, tmFailed>>
  /\ UNCHANGED <<poolVars, clientVars, sessVars, tunVars, maxSize, splVars, hkVars, moreVars>>

\* Mutant of FailedAfterDialError: the failure is not counted.
FailedNotCounted(f) == f

\* stats.FailedConnections++ of a handler whose dial failed.
FailedAfterDialError(f) == f + 1

\* The dial fails: FailedConnections++ and return.
HandlerDialFail(h) ==
  /\ hpc[h] = "dial"
  /\ tmFailed' = FailedAfterDialError(tmFailed)
  /\ hpc' = [hpc EXCEPT ![h] = "failed"]
  /\ UNCHANGED <<ttype, peerLost, tmTotal, tmActive>>
  /\ UNCHANGED <<poolVars, clientVars, sessVars, tunVars, maxSize, splVars, hkVars, moreVars>>

\* tm.transfer returns: both copy goroutines have ended (wg.Wait).
HandlerTransferDone(h) ==
  /\ hpc[h] = "splice"
  /\ hpc' = [hpc EXCEPT ![h] = "defer"]
  /\ UNCHANGED <<ttype, peerLost, tmTotal, tmActive, tmFailed>>
  /\ UNCHANGED <<poolVars, clientVars, sessVars, tunVars, maxSize, splVars, hkVars, moreVars>>

\* The handler's deferred calls: ActiveConnections--, connections.Delete,
\* Close of the accepted connection, wg.Done.
HandlerReturn(h) ==
  /\ hpc[h] \in {"failed", "defer"}
  /\ tmActive' = tmActive - 1
  /\ hpc' = [hpc EXCEPT ![h] = "none"]
  /\ UNCHANGED <<ttype, peerLost, tmTotal, tmFailed>>
  /\ UNCHANGED <<poolVars, clientVars, sessVars, tunVars, maxSize, splVars, hkVars, moreVars>>

\* The one session of the manager, its client holding the pooled transport:
\* status st, supervisor at p, tm.running r, listener bound l, accept loop at a.
SessionAt(st, p, r, l, a) ==
  /\ pool = {[key |-> TunKey, client |-> TunConn, inUse |-> TRUE, expired |-> FALSE]}
  /\ conn = [i \in ConnIds |-> IF i = TunConn THEN "open" ELSE "none"]
  /\ connKey = [i \in ConnIds |-> IF i = TunConn THEN TunKey ELSE NoKey]
  /\ ckey = [c \in Ids |-> IF c = Tun THEN TunKey ELSE NoKey]
  /\ cclient = [c \in Ids |-> IF c = Tun THEN TunConn ELSE Nil]
  /\ cconnected = [c \in Ids |-> c = Tun]
  /\ cpc = [c \in Ids |-> "idle"]
  /\ ctmp = [c \in Ids |-> Nil]
  /\ cres = [c \in Ids |-> IF c = Tun THEN "ok" ELSE "none"]
  /\ inMap = [s \in Ids |-> s = Tun]
  /\ status = [s \in Ids |-> IF s = Tun THEN st ELSE "None"]
  /\ pc = [s \in Ids |-> IF s = Tun THEN p ELSE "idle"]
  /\ dpc = [s \in Ids |-> "idle"]
  /\ stopChan = [s \in Ids |-> 0]
  /\ cancelled = [s \in Ids |-> FALSE]
  /\ lastError = [s \in Ids |-> "none"]
  /\ reqRetries \in [Ids -> {0}]
  /\ attempt = [s \in Ids |-> 0]
  /\ sessActive = [s \in Ids |-> 0]
  /\ sessReconn = [s \in Ids |-> 0]
  /\ stops = [s \in Ids |-> 0]
  /\ running = [s \in Ids |-> IF s = Tun THEN r ELSE 0]
  /\ tstop = [s \in Ids |-> FALSE]
  /\ listener = [s \in Ids |-> s = Tun /\ l]
  /\ acc = [s \in Ids |-> IF s = Tun THEN a ELSE "none"]
  /\ tconn = [s \in Ids |-> "none"]
  /\ maxSize = MaxSize

\* runSession has set StatusActive: the listener is bound and the accept
\* loop is at the top of its loop.
TunnelUp ==
  /\ SessionAt("Active", "mon", 1, TRUE, "top")
  /\ ttype \in {"local", "remote"}
  /\ peerLost = FALSE

\* The tunnel is up and no connection has been accepted yet.
TrafficInit ==
  /\ TunnelUp
  /\ hpc = [h \in Slots |-> "none"]
  /\ tmTotal = 0
  /\ tmActive = 0
  /\ tmFailed = 0
  /\ InitSplVars
  /\ InitHkVars
  /\ InitMoreVars

\* ------------------------------------------------------- listen address
\* startLocalForwarding, startDynamicForwarding and startRemoteForwarding
\* compute the address their listener is bound to from the rule.

RuleTypes == {"local", "remote", "dynamic"}

\* Bind addresses a rule can carry; "" is an unset field.
BindAddrs == {"", "127.0.0.1", "::1", "localhost", "0.0.0.0", "192.168.1.5"}

Ports == {1080, 8080}

IsLoopback(a) == a \in {"127.0.0.1", "::1", "localhost"}

\* bindAddr := tm.config.LocalBindAddress (SOCKSBindAddress,
\* RemoteBindAddress); if bindAddr == "" { bindAddr = "127.0.0.1" }.
\* tm.config.AllowRemoteConnections is not read.
BindAddr(cfg) == IF cfg = "" THEN "127.0.0.1" ELSE cfg

\* start...Forwarding of the rule's type: Listen on bindAddr:port succeeds,
\* the listener is appended and the accept loop is started.
StartForwarding ==
  /\ pc[Tun] = "ts_listen"
  /\ ~listener[Tun]
  /\ acc[Tun] = "none"
  /\ boundAddr' = <<BindAddr(bindCfg), bindPort>>
  /\ listener' = [listener EXCEPT ![Tun] = TRUE]
  /\ acc' = [acc EXCEPT ![Tun] = "top"]
  /\ pc' = [pc EXCEPT ![Tun] = "ts_ok"]
  /\ UNCHANGED <<inMap, status, dpc, stopChan, cancelled, lastError, reqRetries,
                 attempt, sessActive, sessReconn, stops>>
  /\ UNCHANGED <<running, tstop, tconn>>
  /\ UNCHANGED <<poolVars, clientVars>>
  /\ UNCHANGED <<maxSize, trafVars, splVars, hkVars>>
  /\ UNCHANGED <<bindCfg, allowRemote, bindPort>>
  /\ UNCHANGED restBind

\* runSession is inside tunnelMgr.Start, past the CompareAndSwap and the
\* validation, for a rule of any type, bind address and port.
BindInit ==
  /\ SessionAt("Connected", "ts_listen", 1, FALSE, "none")
  /\ ttype \in RuleTypes
  /\ peerLost = FALSE
  /\ hpc = [h \in Slots |-> "none"]
  /\ tmTotal = 0
  /\ tmActive = 0
  /\ tmFailed = 0
  /\ InitSplVars
  /\ InitHkVars
  /\ bindCfg \in BindAddrs
  /\ allowRemote \in BOOLEAN
  /\ bindPort \in Ports
  /\ boundAddr = <<"none", 0>>
  /\ InitRestBind

BindNext ==
  \/ StartForwarding
  \/ TunnelListenFail(Tun)
  \/ RunActive(Tun)
  \/ RunTunnelFailed(Tun)
  \/ AcceptLoopTop(Tun)

BindSpec == BindInit /\ [][BindNext]_vars

\* ------------------------------------------------------- SOCKS
\* handleSOCKSConnection beside handleLocalConnection, over a transport that
\* stays up and with targets that accept the dial.

\* host:port of tm.config.RemoteHost and RemotePort of a local rule.
RuleTarget == "db:5432"

\* Targets a SOCKS client asks for.
Targets == {"db:5432", "web:80"}

\* handleSOCKS5 (and handleSOCKS4): nothing is read from the connection;
\* the result is "", fmt.Errorf("SOCKS5 not implemented yet").
HandleSOCKS5(req) == [target |-> "", err |-> TRUE]

\* The client of an accepted connection sends a valid SOCKS5 CONNECT for t.
ClientSendsConnect(h, t) ==
  /\ ttype = "dynamic"
  /\ hpc[h] \in {"spawned", "socks"}
  /\ sreq[h] = "none"
  /\ sreq' = [sreq EXCEPT ![h] = t]
  /\ UNCHANGED targetAddr
  /\ UNCHANGED <<poolVars, clientVars, sessVars, tunVars>>
  /\ UNCHANGED <<maxSize, trafVars, splVars, hkVars, restSocks>>

\* The handler's first updateStats.  handleLocalConnection then computes
\* remoteAddr from the rule; handleSOCKSConnection goes to the SOCKS protocol.
ConnCount(h) ==
  /\ hpc[h] = "spawned"
  /\ tmTotal < MaxTotal
  /\ tmTotal' = tmTotal + 1
  /\ tmActive' = tmActive + 1
  /\ IF ttype = "dynamic"
       THEN /\ hpc' = [hpc EXCEPT ![h] = "socks"]
            /\ UNCHANGED targetAddr
       ELSE /\ hpc' = [hpc EXCEPT ![h] = "dial"]
            /\ targetAddr' = [targetAddr EXCEPT ![h] = RuleTarget]
  /\ UNCHANGED <<ttype, peerLost, tmFailed, sreq>>
  /\ UNCHANGED <<poolVars, clientVars, sessVars, tunVars>>
  /\ UNCHANGED <<maxSize, splVars, hkVars, restSocks>>

\* handleSOCKSConnection: targetAddr, err = tm.handleSOCKS5(conn); on an
\* error FailedConnections++ and return.
Socks5Negotiate(h) ==
  /\ ttype = "dynamic"
  /\ hpc[h] = "socks"
  /\ IF HandleSOCKS5(sreq[h]).err
       THEN /\ tmFailed' = tmFailed + 1
            /\ hpc' = [hpc EXCEPT ![h] = "failed"]
            /\ UNCHANGED targetAddr
       ELSE /\ hpc' = [hpc EXCEPT ![h] = "dial"]
            /\ targetAddr' = [targetAddr EXCEPT ![h] = HandleSOCKS5(sreq[h]).target]
            /\ UNCHANGED tmFailed
  /\ UNCHANGED <<ttype, peerLost, tmTotal, tmActive, sreq>>
  /\ UNCHANGED <<poolVars, clientVars, sessVars, tunVars>>
  /\ UNCHANGED <<maxSize, splVars, hkVars, restSocks>>

\* sshClient.Dial("tcp", targetAddr) succeeds; tm.transfer is entered.
ConnDial(h) ==
  /\ hpc[h] = "dial"
  /\ DialPossible(Tun)
  /\ hpc' = [hpc EXCEPT ![h] = "splice"]
  /\ UNCHANGED <<ttype, peerLost, tmTotal, tmActive, tmFailed, sreq, targetAddr>>
  /\ UNCHANGED <<poolVars, clientVars, sessVars, tunVars>>
  /\ UNCHANGED <<maxSize, splVars, hkVars, restSocks>>

\* The handler's deferred calls; the accepted connection is closed.
ConnReturn(h) ==
  /\ hpc[h] \in {"failed", "defer"}
  /\ tmActive' = tmActive - 1
  /\ hpc' = [hpc EXCEPT ![h] = "none"]
  /\ sreq' = [sreq EXCEPT ![h] = "none"]
  /\ targetAddr' = [targetAddr EXCEPT ![h] = "none"]
  /\ UNCHANGED <<ttype, peerLost, tmTotal, tmFailed>>
  /\ UNCHANGED <<poolVars, clientVars, sessVars, tunVars>>
  /\ UNCHANGED <<maxSize, splVars, hkVars, restSocks>>

\* A local or a dynamic rule is up and no connection has been accepted yet.
SocksInit ==
  /\ SessionAt("Active", "mon", 1, TRUE, "top")
  /\ ttype \in {"local", "dynamic"}
  /\ peerLost = FALSE
  /\ hpc = [h \in Slots |-> "none"]
  /\ tmTotal = 0
  /\ tmActive = 0
  /\ tmFailed = 0
  /\ InitSplVars
  /\ InitHkVars
  /\ InitMoreVars

SocksNext ==
  \/ AcceptLoopTop(Tun)
  \/ \E h \in Slots : TrafficAccept(h)
  \/ \E h \in Slots, t \in Targets : ClientSendsConnect(h, t)
  \/ \E h \in Slots : ConnCount(h)
  \/ \E h \in Slots : Socks5Negotiate(h)
  \/ \E h \in Slots : ConnDial(h)
  \/ \E h \in Slots : HandlerTransferDone(h)
  \/ \E h \in Slots : ConnReturn(h)

SocksSpec == SocksInit /\ [][SocksNext]_vars

\* ------------------------------------------------------- transfer
\* transfer(conn1, conn2) of one accepted connection: side "a" is conn1, side
\* "b" is conn2.  Direction "ab" is the goroutine copyData(conn2, conn1), which
\* reads a and writes b; direction "ba" is copyData(conn1, conn2).
\* cp[d]      : "start" before copyData, "copy" inside io.Copy, "close" after
\*              io.Copy returned and before the Close() call, "done" after it
\* why[d]     : why io.Copy returned: "eof", "deadline" or "closed"
\* closed[x]  : Close() has been called on connection x
\* eof[x]     : the peer of connection x has finished sending
\* pending[x] : bytes the peer of x has sent and io.Copy has not read yet
\* dropped[x] : bytes the peer of x has sent that will never be delivered
\* age        : time since copyData set the deadlines
\* idle       : time since io.Copy last moved a byte

Src(d) == IF d = "ab" THEN "a" ELSE "b"

Dst(d) == IF d = "ab" THEN "b" ELSE "a"

Rev(d) == IF d = "ab" THEN "ba" ELSE "ab"

\* The direction that reads connection x.
From(x) == IF x = "a" THEN "ab" ELSE "ba"

\* The deadline copyData sets: now + IdleTimeout, computed once before
\* io.Copy and not touched afterwards.
DeadlinePassed(a) == a >= IdleTimeout

\* conn.Close(): both halves of the connection.
ConnClose(c, x) == [c EXCEPT ![x] = TRUE]

\* What transfer leaves alone.
SpliceFrame ==
  UNCHANGED <<pool, conn, connKey, ckey, cclient, cconnected, cpc, ctmp, cres,
              inMap, status, pc, dpc, stopChan, cancelled, lastError,
              reqRetries, attempt, sessActive, sessReconn, stops,
              running, tstop, listener, acc, tconn, maxSize, trafVars, hkVars,
              moreVars>>

\* copyData up to the io.Copy call: both deadlines are set.
CopySetDeadline(d) ==
  /\ cp[d] = "start"
  /\ cp' = [cp EXCEPT ![d] = "copy"]
  /\ UNCHANGED <<why, closed, eof, pending, dropped, age, idle>>
  /\ UNCHANGED <<moved, bytesSent, bytesReceived>>
  /\ SpliceFrame

\* The peer of connection x sends one byte.  After Close() on x the byte
\* has no reader.
PeerSend(x) ==
  /\ ~eof[x]
  /\ pending[x] + dropped[x] + moved[From(x)] < MaxSent
  /\ IF closed[x]
        THEN /\ dropped[x] < MaxBytes
             /\ dropped' = [dropped EXCEPT ![x] = @ + 1]
             /\ UNCHANGED pending
        ELSE /\ pending[x] + dropped[x] < MaxBytes
             /\ pending' = [pending EXCEPT ![x] = @ + 1]
             /\ UNCHANGED dropped
  /\ UNCHANGED <<cp, why, closed, eof, age, idle>>
  /\ UNCHANGED <<moved, bytesSent, bytesReceived>>
  /\ SpliceFrame

\* The peer of connection x finishes sending (end-of-stream on x).
PeerEof(x) ==
  /\ ~eof[x]
  /\ eof' = [eof EXCEPT ![x] = TRUE]
  /\ UNCHANGED <<cp, why, closed, pending, dropped, age, idle>>
  /\ UNCHANGED <<moved, bytesSent, bytesReceived>>
  /\ SpliceFrame

\* io.Copy moves one byte: Read on the source, Write on the destination.
\* A Write on a destination that was closed fails and ends the copy.
CopyByte(d) ==
  /\ cp[d] = "copy"
  /\ ~closed[Src(d)]
  /\ ~DeadlinePassed(age)
  /\ pending[Src(d)] > 0
  /\ pending' = [pending EXCEPT ![Src(d)] = @ - 1]
  /\ IF closed[Dst(d)]
        THEN /\ cp' = [cp EXCEPT ![d] = "close"]
             /\ why' = [why EXCEPT ![d] = "closed"]
             /\ dropped' = [dropped EXCEPT ![Src(d)] = @ + 1]
             /\ UNCHANGED idle
        ELSE /\ idle' = 0
             /\ UNCHANGED <<cp, why, dropped>>
  /\ moved' = [moved EXCEPT ![d] = IF closed[Dst(d)] THEN @ ELSE @ + 1]
  /\ UNCHANGED <<closed, eof, age, bytesSent, bytesReceived>>
  /\ SpliceFrame

\* io.Copy returns because Read saw end-of-stream on the source.
CopyEof(d) ==
  /\ cp[d] = "copy"
  /\ ~closed[Src(d)]
  /\ ~DeadlinePassed(age)
  /\ pending[Src(d)] = 0
  /\ eof[Src(d)]
  /\ cp' = [cp EXCEPT ![d] = "close"]
  /\ why' = [why EXCEPT ![d] = "eof"]
  /\ UNCHANGED <<closed, eof, pending, dropped, age, idle>>
  /\ UNCHANGED <<moved, bytesSent, bytesReceived>>
  /\ SpliceFrame

\* io.Copy returns because the deadline set by copyData has passed.
CopyDeadline(d) ==
  /\ cp[d] = "copy"
  /\ ~closed[Src(d)]
  /\ DeadlinePassed(age)
  /\ cp' = [cp EXCEPT ![d] = "close"]
  /\ why' = [why EXCEPT ![d] = "deadline"]
  /\ UNCHANGED <<closed, eof, pending, dropped, age, idle>>
  /\ UNCHANGED <<moved, bytesSent, bytesReceived>>
  /\ SpliceFrame

\* io.Copy returns because its source was closed by the other goroutine.
CopyClosed(d) ==
  /\ cp[d] = "copy"
  /\ closed[Src(d)]
  /\ cp' = [cp EXCEPT ![d] = "close"]
  /\ why' = [why EXCEPT ![d] = "closed"]
  /\ UNCHANGED <<closed, eof, pending, dropped, age, idle>>
  /\ UNCHANGED <<moved, bytesSent, bytesReceived>>
  /\ SpliceFrame

\* After io.Copy the goroutine adds the bytes the call returned to the
\* tunnel's counter and closes its destination; what the peer of that
\* connection has sent and was not read yet is lost.
CopyCloseDst(d) ==
  /\ cp[d] = "close"
  /\ cp' = [cp EXCEPT ![d] = "done"]
  /\ closed' = ConnClose(closed, Dst(d))
  /\ dropped' = [dropped EXCEPT ![Dst(d)] = @ + pending[Dst(d)]]
  /\ pending' = [pending EXCEPT ![Dst(d)] = 0]
  /\ bytesSent' = IF d = "ab" THEN bytesSent + moved[d] ELSE bytesSent
  /\ bytesReceived' = IF d = "ba" THEN bytesReceived + moved[d] ELSE bytesReceived
  /\ UNCHANGED <<why, eof, age, idle, moved>>
  /\ SpliceFrame

\* Time passes while io.Copy is running.
Tick ==
  /\ \A d \in Dirs : cp[d] # "start"
  /\ \E d \in Dirs : cp[d] = "copy"
  /\ age < MaxAge
  /\ age' = age + 1
  /\ idle' = idle + 1
  /\ UNCHANGED <<cp, why, closed, eof, pending, dropped>>
  /\ UNCHANGED <<moved, bytesSent, bytesReceived>>
  /\ SpliceFrame

\* The handler of one accepted connection has dialled and calls transfer.
SpliceInit ==
  /\ TunnelUp
  /\ hpc = [h \in Slots |-> IF h = 1 THEN "splice" ELSE "none"]
  /\ tmTotal = 1
  /\ tmActive = 1
  /\ tmFailed = 0
  /\ cp = [d \in Dirs |-> "start"]
  /\ why = [d \in Dirs |-> "none"]
  /\ closed = [x \in Sides |-> FALSE]
  /\ eof = [x \in Sides |-> FALSE]
  /\ pending = [x \in Sides |-> 0]
  /\ dropped = [x \in Sides |-> 0]
  /\ age = 0
  /\ idle = 0
  /\ moved = [d \in Dirs |-> 0]
  /\ bytesSent = 0
  /\ bytesReceived = 0
  /\ InitHkVars
  /\ InitMoreVars

SpliceNext ==
  \/ \E d \in Dirs : \/ CopySetDeadline(d)
                     \/ CopyByte(d)
                     \/ CopyEof(d)
                     \/ CopyDeadline(d)
                     \/ CopyClosed(d)
                     \/ CopyCloseDst(d)
  \/ \E x \in Sides : PeerSend(x) \/ PeerEof(x)
  \/ Tick

SpliceSpec == SpliceInit /\ [][SpliceNext]_vars

\* ------------------------------------------------------- host keys
\* HostKeyCallback("ask", knownHostsFile) with a known-hosts file.  The file
\* is the sequence of its lines, each a <<host, key>> pair.

Hosts == {"gw1", "gw2"}

HostKeys == {"k1", "k2"}

\* What verifying a host key leaves alone.
HostKeyFrame ==
  UNCHANGED <<pool, conn, connKey, ckey, cclient, cconnected, cpc, ctmp, cres,
              inMap, status, pc, dpc, stopChan, cancelled, lastError,
              reqRetries, attempt, sessActive, sessReconn, stops,
              running, tstop, listener, acc, tconn, maxSize, trafVars, splVars,
              moreVars>>

\* The lines saveHostKey leaves in the file: O_APPEND, one more line.
SaveHostKeyLines(f, h, k) == Append(f, <<h, k>>)

\* An SSH handshake with host h starts and the server presents key k.
HandshakeBegin(h, k) ==
  /\ hkHost = "none"
  /\ hkHost' = h
  /\ hkKey' = k
  /\ hkResult' = "none"
  /\ UNCHANGED knownHosts
  /\ HostKeyFrame

\* The callback of createInteractiveHostKeyCallback: the file is not read,
\* the key is appended by saveHostKey and nil is returned.
AskCallbackSaved ==
  /\ hkHost # "none"
  /\ hkResult = "none"
  /\ Len(knownHosts) < MaxKnownHosts
  /\ knownHosts' = SaveHostKeyLines(knownHosts, hkHost, hkKey)
  /\ hkResult' = "accept"
  /\ UNCHANGED <<hkHost, hkKey>>
  /\ HostKeyFrame

\* The same callback when saveHostKey cannot create the directory or open or
\* write the file: its error is returned.
AskCallbackSaveError ==
  /\ hkHost # "none"
  /\ hkResult = "none"
  /\ hkResult' = "reject"
  /\ UNCHANGED <<knownHosts, hkHost, hkKey>>
  /\ HostKeyFrame

\* The handshake is over.
HandshakeEnd ==
  /\ hkResult # "none"
  /\ hkHost' = "none"
  /\ hkKey' = "none"
  /\ hkResult' = "none"
  /\ UNCHANGED knownHosts
  /\ HostKeyFrame

HostKeyNext ==
  \/ \E h \in Hosts, k \in HostKeys : HandshakeBegin(h, k)
  \/ AskCallbackSaved
  \/ AskCallbackSaveError
  \/ HandshakeEnd

\* ------------------------------------------------------- terminal
\* One TerminalSession: the goroutine of HandleTerminalConnection, the two
\* handleTerminalOutput pumps, a caller of CloseSession, the WebSocket
\* client and the remote shell.

\* What the terminal leaves alone.
TermFrame ==
  UNCHANGED <<poolVars, clientVars, sessVars, tunVars, maxSize, trafVars,
              splVars, hkVars, restTerm>>

\* Mutant of MutexFree: Lock() never waits.
MutexIgnored(m) == TRUE

\* session.WSMutex.Lock() returns only when nobody holds the mutex.
MutexFree(m) == m = NoHolder

\* ws.ReadJSON returns a terminal_connect message.
TermConnectMsg ==
  /\ hpos = "read"
  /\ wsOpen
  /\ sshCur < MaxConnects
  /\ hpos' = "connect"
  /\ UNCHANGED <<termIn, termDone, hnext, sshSess, sshCur, wsOpen, ppc, wsMutex, outBuf>>
  /\ TermFrame

\* handleTerminalConnect: Connect (which dials under session.Context),
\* NewSession, RequestPty, the pipes and Shell succeed; session.SSHClient
\* and session.SSHSession are assigned, whatever they held before; the two
\* pumps of the new shell are started; sendMessage is called.
TermConnectOk ==
  /\ hpos = "connect"
  /\ ~termDone
  /\ sshSess' = [sshSess EXCEPT ![sshCur + 1] = "open"]
  /\ sshCur' = sshCur + 1
  /\ ppc' = [p \in Pumps |-> IF p[2] = sshCur + 1 THEN "select" ELSE ppc[p]]
  /\ hpos' = "find"
  /\ hnext' = "read"
  /\ UNCHANGED <<termIn, termDone, wsOpen, wsMutex, outBuf>>
  /\ TermFrame

\* handleTerminalConnect returns an error before an SSH session exists:
\* sendError is called and HandleTerminalConnection returns.
TermConnectFail ==
  /\ hpos = "connect"
  /\ hpos' = "find"
  /\ hnext' = "cleanup"
  /\ UNCHANGED <<termIn, termDone, sshSess, sshCur, wsOpen, ppc, wsMutex, outBuf>>
  /\ TermFrame

\* sendMessage / sendError: the session is looked up by its WebSocket under
\* tm.mutex.RLock; without a session nothing is written.
SendFind ==
  /\ hpos = "find"
  /\ hpos' = IF termIn THEN "lock" ELSE hnext
  /\ UNCHANGED <<termIn, termDone, hnext, sshSess, sshCur, wsOpen, ppc, wsMutex, outBuf>>
  /\ TermFrame

\* sendMessage / sendError: session.WSMutex.Lock().
SendLock ==
  /\ hpos = "lock"
  /\ MutexFree(wsMutex)
  /\ wsMutex' = HandlerId
  /\ hpos' = "write"
  /\ UNCHANGED <<termIn, termDone, hnext, sshSess, sshCur, wsOpen, ppc, outBuf>>
  /\ TermFrame

\* sendMessage / sendError: ws.WriteJSON returns, the deferred Unlock runs.
SendWrite ==
  /\ hpos = "write"
  /\ wsMutex' = IF wsMutex = HandlerId THEN NoHolder ELSE wsMutex
  /\ hpos' = hnext
  /\ UNCHANGED <<termIn, termDone, hnext, sshSess, sshCur, wsOpen, ppc, outBuf>>
  /\ TermFrame

\* ws.ReadJSON returns terminal_disconnect, or an error because the client
\* closed the WebSocket: the loop is left.
TermClientLeaves(closes) ==
  /\ hpos = "read"
  /\ wsOpen
  /\ wsOpen' = ~closes
  /\ hpos' = "cleanup"
  /\ UNCHANGED <<termIn, termDone, hnext, sshSess, sshCur, ppc, wsMutex, outBuf>>
  /\ TermFrame

\* The deferred calls of HandleTerminalConnection: delete from tm.sessions,
\* session.SSHSession.Close, session.SSHClient.Disconnect, cancel.
TermCleanup ==
  /\ hpos = "cleanup"
  /\ termIn' = FALSE
  /\ sshSess' = [g \in Gens |->
                   IF g = sshCur /\ sshSess[g] = "open" THEN "closed" ELSE sshSess[g]]
  /\ UNCHANGED sshCur
  /\ termDone' = TRUE
  /\ hpos' = "done"
  /\ UNCHANGED <<hnext, wsOpen, ppc, wsMutex, outBuf>>
  /\ TermFrame

\* CloseSession (CloseAllSessions for the host): session.Cancel() and
\* delete(tm.sessions, sessionID) under tm.mutex.
CloseSession ==
  /\ termIn
  /\ termDone' = TRUE
  /\ termIn' = FALSE
  /\ UNCHANGED <<hpos, hnext, sshSess, sshCur, wsOpen, ppc, wsMutex, outBuf>>
  /\ TermFrame

\* The remote shell writes a chunk to its stdout or stderr.
ShellOutput(p) ==
  /\ sshSess[p[2]] = "open"
  /\ outBuf[p] < MaxOut
  /\ outBuf' = [outBuf EXCEPT ![p] = @ + 1]
  /\ UNCHANGED <<termIn, termDone, hpos, hnext, sshSess, sshCur, wsOpen, ppc, wsMutex>>
  /\ TermFrame

\* handleTerminalOutput: the select at the top of the loop.
PumpSelect(p) ==
  /\ ppc[p] = "select"
  /\ ppc' = [ppc EXCEPT ![p] = IF termDone THEN "done" ELSE "read"]
  /\ UNCHANGED <<termIn, termDone, hpos, hnext, sshSess, sshCur, wsOpen, wsMutex, outBuf>>
  /\ TermFrame

\* handleTerminalOutput: reader.Read returns a chunk, or end-of-stream once
\* the SSH session is closed; it blocks otherwise.
PumpRead(p) ==
  /\ ppc[p] = "read"
  /\ IF outBuf[p] > 0
       THEN /\ outBuf' = [outBuf EXCEPT ![p] = @ - 1]
            /\ ppc' = [ppc EXCEPT ![p] = "lock"]
       ELSE /\ sshSess[p[2]] = "closed"
            /\ ppc' = [ppc EXCEPT ![p] = "done"]
            /\ UNCHANGED outBuf
  /\ UNCHANGED <<termIn, termDone, hpos, hnext, sshSess, sshCur, wsOpen, wsMutex>>
  /\ TermFrame

\* handleTerminalOutput: session.WSMutex.Lock().
PumpLock(p) ==
  /\ ppc[p] = "lock"
  /\ MutexFree(wsMutex)
  /\ wsMutex' = p
  /\ ppc' = [ppc EXCEPT ![p] = "write"]
  /\ UNCHANGED <<termIn, termDone, hpos, hnext, sshSess, sshCur, wsOpen, outBuf>>
  /\ TermFrame

\* handleTerminalOutput: WriteJSON returns, Unlock; a write error (the
\* WebSocket is closed) ends the pump.
PumpWrite(p) ==
  /\ ppc[p] = "write"
  /\ wsMutex' = IF wsMutex = p THEN NoHolder ELSE wsMutex
  /\ ppc' = [ppc EXCEPT ![p] = IF wsOpen THEN "select" ELSE "done"]
  /\ UNCHANGED <<termIn, termDone, hpos, hnext, sshSess, sshCur, wsOpen, outBuf>>
  /\ TermFrame

\* The goroutines of the server: they take their steps when they can.
TermProgram ==
  \/ TermConnectOk
  \/ TermConnectFail
  \/ SendFind
  \/ SendLock
  \/ SendWrite
  \/ TermCleanup
  \/ \E p \in Pumps : PumpSelect(p) \/ PumpRead(p) \/ PumpLock(p) \/ PumpWrite(p)

\* The WebSocket client, the remote shell and the caller of CloseSession.
TermEnvironment ==
  \/ TermConnectMsg
  \/ \E closes \in BOOLEAN : TermClientLeaves(closes)
  \/ CloseSession
  \/ \E p \in Pumps : ShellOutput(p)

\* NewSessionManager beside a TerminalManager with one registered session.
TermInit ==
  /\ InitPoolVars
  /\ InitClientVars
  /\ ckey = [c \in Ids |-> NoKey]
  /\ InitSessVars
  /\ InitTunVars
  /\ maxSize = MaxSize
  /\ InitTrafVars
  /\ InitSplVars
  /\ InitHkVars
  /\ InitMoreVars

TermNext == TermProgram \/ TermEnvironment

TermSpec == TermInit /\ [][TermNext]_vars

\* Every goroutine of the server that can take a step takes one.
TermFairSpec == TermSpec /\ WF_vars(TermProgram)

\* ------------------------------------------------------- credentials
\* SSHClient.Connect up to the ssh.ClientConfig: ValidateConfig, then the
\* authentication methods createConnection builds.

AuthMethodNames == {"password", "private_key", "agent"}

\* authOrder of GetAllAuthMethods.
AuthOrder == <<"agent", "private_key", "password">>

\* What building the credentials leaves alone.
AuthFrame ==
  UNCHANGED <<poolVars, clientVars, sessVars, tunVars, maxSize, trafVars,
              splVars, hkVars, restAuth>>

\* provider.GetAuthMethods returns no error: the password is not empty, a
\* private key loads, the agent socket is set and answers.
ProviderOk(m, pw, key, agent) ==
  \/ m = "password" /\ pw
  \/ m = "private_key" /\ key = "good"
  \/ m = "agent" /\ agent = "live"

\* AuthManager.ValidateConfig, the switch on config.AuthMethod (host, port
\* and user name are set).
ValidateConfigOk(m, pw, agent) ==
  \/ m = "password" /\ pw
  \/ m = "private_key"
  \/ m = "agent" /\ agent # "unset"

\* AuthManager.GetAllAuthMethods: the methods of every provider that
\* returns no error, in authOrder.
IsAvailable(pw, key, agent, i) == ProviderOk(AuthOrder[i], pw, key, agent)

RECURSIVE CollectFrom(_, _, _, _)
CollectFrom(pw, key, agent, i) ==
  IF i > Len(AuthOrder) THEN <<>>
  ELSE (IF IsAvailable(pw, key, agent, i) THEN <<AuthOrder[i]>> ELSE <<>>)
       \o CollectFrom(pw, key, agent, i + 1)

GetAllAuthMethods(pw, key, agent) == CollectFrom(pw, key, agent, 1)

\* createConnection: the methods of config.AuthMethod alone; all available
\* ones only when that provider returns an error.
CreateAuthMethods(m, pw, key, agent) ==
  IF ProviderOk(m, pw, key, agent) THEN <<m>>
  ELSE GetAllAuthMethods(pw, key, agent)

\* Connect: ValidateConfig.
ConnectValidate ==
  /\ apos = "start"
  /\ IF ValidateConfigOk(aMethod, aPassword, aAgent)
       THEN /\ apos' = "validated"
            /\ UNCHANGED aerr
       ELSE /\ apos' = "failed"
            /\ aerr' = "invalid SSH configuration"
  /\ UNCHANGED <<aMethod, aPassword, aKey, aAgent, authList>>
  /\ AuthFrame

\* createConnection: the authentication methods, or the error when there
\* is none.
ConnectBuildAuth ==
  /\ apos = "validated"
  /\ IF CreateAuthMethods(aMethod, aPassword, aKey, aAgent) = <<>>
       THEN /\ apos' = "failed"
            /\ aerr' = "no authentication methods available"
            /\ UNCHANGED authList
       ELSE /\ apos' = "built"
            /\ authList' = CreateAuthMethods(aMethod, aPassword, aKey, aAgent)
            /\ UNCHANGED aerr
  /\ UNCHANGED <<aMethod, aPassword, aKey, aAgent>>
  /\ AuthFrame

\* Connect has returned; the caller calls it again.
ConnectAgain ==
  /\ apos \in {"built", "failed"}
  /\ apos' = "start"
  /\ aerr' = "none"
  /\ authList' = <<>>
  /\ UNCHANGED <<aMethod, aPassword, aKey, aAgent>>
  /\ AuthFrame

\* A client for any configuration of credentials.
AuthInit ==
  /\ InitPoolVars
  /\ InitClientVars
  /\ ckey = [c \in Ids |-> NoKey]
  /\ InitSessVars
  /\ InitTunVars
  /\ maxSize = MaxSize
  /\ InitTrafVars
  /\ InitSplVars
  /\ InitHkVars
  /\ InitRestAuth
  /\ aMethod \in AuthMethodNames
  /\ aPassword \in BOOLEAN
  /\ aKey \in {"none", "bad", "good"}
  /\ aAgent \in {"unset", "dead", "live"}
  /\ apos = "start"
  /\ aerr = "none"
  /\ authList = <<>>

AuthNext ==
  \/ ConnectValidate
  \/ ConnectBuildAuth
  \/ ConnectAgain

AuthSpec == AuthInit /\ [][AuthNext]_vars

\* ------------------------------------------------------- specifications

\* NewSessionManager: an empty pool and no session.
Init ==
  /\ InitPoolVars
  /\ InitClientVars
  /\ ckey = [c \in Ids |-> NoKey]
  /\ InitSessVars
  /\ InitTunVars
  /\ maxSize = MaxSize
  /\ InitTrafVars
  /\ InitSplVars
  /\ InitHkVars
  /\ InitMoreVars

\* The AuthManager on its own: handshakes verified by the ask callback.
HostKeySpec == Init /\ [][HostKeyNext]_vars

\* The runSession goroutine of session s, monitorSession and the Connect and
\* stopSession calls it makes included.
Supervisor(s) ==
  \/ RunBegin(s)
  \/ ConnectGet(s)
  \/ ConnectDialOk(s)
  \/ ConnectDialFail(s)
  \/ ConnectPut(s)
  \/ RunConnectFailed(s)
  \/ RunConnected(s)
  \/ TunnelStart(s)
  \/ TunnelStartConnect(s)
  \/ TunnelListenOk(s)
  \/ TunnelListenFail(s)
  \/ RunTunnelFailed(s)
  \/ RunTunnelFailDisconnect(s)
  \/ RunActive(s)
  \/ MonitorCtxDone(s)
  \/ MonitorStopRequested(s)
  \/ MonitorTick(s)
  \/ ReconnectDisconnect(s)
  \/ ReconnectLoop(s)
  \/ ReconnectAttempt(s)
  \/ ReconnectBackoff(s)
  \/ MonitorReconnected(s)
  \/ MonitorReconnectFailed(s)
  \/ StopSessionBegin(s, "sup")
  \/ StopSessionTunnel(s, "sup")
  \/ StopSessionWait(s, "sup")
  \/ StopSessionDisconnect(s, "sup")
  \/ StopSessionFinal(s, "sup")

\* The caller of DeleteSession once it is past the map.
Deleter(s) ==
  \/ StopSessionBegin(s, "del")
  \/ StopSessionTunnel(s, "del")
  \/ StopSessionWait(s, "del")
  \/ StopSessionDisconnect(s, "del")
  \/ StopSessionFinal(s, "del")
  \/ DeleteCancel(s)

\* The accept-loop goroutine.
Acceptor(s) ==
  \/ AcceptLoopTop(s)
  \/ AcceptConn(s)
  \/ AcceptError(s)

\* The connection handler goroutine.
Handler(s) ==
  \/ HandlerRegister(s)
  \/ HandlerExit(s)

\* Calls of the API layer and events of the environment.
Environment(s) ==
  \/ CreateSession(s)
  \/ StartSession(s)
  \/ StopSession(s)
  \/ DeleteSession(s)
  \/ GetSessionStats(s)
  \/ HandlerPeerClose(s)

Next ==
  \/ \E s \in Sessions : Supervisor(s)
  \/ \E s \in Sessions : Deleter(s)
  \/ \E s \in Sessions : Acceptor(s)
  \/ \E s \in Sessions : Handler(s)
  \/ \E s \in Sessions : Environment(s)
  \/ TransportDies
  \/ Elapse
  \/ Cleanup

\* The session manager with its pool, tunnels and sessions.
Spec == Init /\ [][Next]_vars

\* Every goroutine that can take a step is scheduled eventually; the API layer
\* and the environment are free to do nothing.
Fairness ==
  \A s \in Sessions :
    /\ WF_vars(Supervisor(s))
    /\ WF_vars(Deleter(s))
    /\ WF_vars(Acceptor(s))
    /\ WF_vars(Handler(s))

FairSpec == Spec /\ Fairness

\* Two sessions of one manager through creation, start and stop, without
\* deletion, client traffic or pool eviction.
PairNext ==
  \/ \E s \in Pair : CreateSession(s)
  \/ \E s \in Pair : StartSession(s)
  \/ \E s \in Pair : StopSession(s)
  \/ \E s \in Pair : RunBegin(s)
  \/ \E s \in Pair : ConnectGet(s)
  \/ \E s \in Pair : ConnectDialOk(s)
  \/ \E s \in Pair : ConnectDialFail(s)
  \/ \E s \in Pair : ConnectPut(s)
  \/ \E s \in Pair : RunConnectFailed(s)
  \/ \E s \in Pair : RunConnected(s)
  \/ \E s \in Pair : TunnelStart(s)
  \/ \E s \in Pair : TunnelListenOk(s)
  \/ \E s \in Pair : TunnelListenFail(s)
  \/ \E s \in Pair : RunTunnelFailed(s)
  \/ \E s \in Pair : RunTunnelFailDisconnect(s)
  \/ \E s \in Pair : RunActive(s)
  \/ \E s \in Pair : MonitorCtxDone(s)
  \/ \E s \in Pair : MonitorStopRequested(s)
  \/ \E s \in Pair : StopSessionBegin(s, "sup")
  \/ \E s \in Pair : StopSessionTunnel(s, "sup")
  \/ \E s \in Pair : StopSessionWait(s, "sup")
  \/ \E s \in Pair : StopSessionDisconnect(s, "sup")
  \/ \E s \in Pair : StopSessionFinal(s, "sup")
  \/ \E s \in Pair : AcceptLoopTop(s)
  \/ \E s \in Pair : AcceptError(s)

PairSpec == Init /\ [][PairNext]_vars

PoolNext ==
  \/ \E c \in Clients : ClientConnect(c)
  \/ \E c \in Clients : ConnectGet(c)
  \/ \E c \in Clients : ConnectDialOk(c)
  \/ \E c \in Clients : ConnectDialFail(c)
  \/ \E c \in Clients : ConnectPut(c)
  \/ \E c \in Clients : ClientDisconnect(c)
  \/ Elapse
  \/ Cleanup
  \/ PoolClose
  \/ TransportDies

\* The pool and its tenants alone, every operation callable at any time.
PoolSpec == PoolInit /\ [][PoolNext]_vars

\* The pool while it is open: its tenants and the cleanup goroutine, no
\* ConnectionPool.Close.
OpenPoolNext ==
  \/ \E c \in Clients : ClientConnect(c)
  \/ \E c \in Clients : ConnectGet(c)
  \/ \E c \in Clients : ConnectDialOk(c)
  \/ \E c \in Clients : ConnectDialFail(c)
  \/ \E c \in Clients : ConnectPut(c)
  \/ \E c \in Clients : ClientDisconnect(c)
  \/ Elapse
  \/ Cleanup
  \/ TransportDies

OpenPoolSpec == PoolInit /\ [][OpenPoolNext]_vars

\* Sessions that are created, asked to stop and deleted, never started.
CreateDeleteNext ==
  \/ \E s \in Pair : CreateSession(s)
  \/ \E s \in Pair : StopSession(s)
  \/ \E s \in Pair : DeleteSession(s)
  \/ \E s \in Pair : StopSessionBegin(s, "del")
  \/ \E s \in Pair : StopSessionTunnel(s, "del")
  \/ \E s \in Pair : StopSessionDisconnect(s, "del")
  \/ \E s \in Pair : StopSessionFinal(s, "del")
  \/ \E s \in Pair : DeleteCancel(s)

CreateDeleteSpec == Init /\ [][CreateDeleteNext]_vars

\* Sessions that are created, started, stopped and started again, never
\* deleted.
RestartNext ==
  \/ \E s \in Sessions : RunBegin(s)
  \/ \E s \in Sessions : ConnectGet(s)
  \/ \E s \in Sessions : ConnectDialOk(s)
  \/ \E s \in Sessions : ConnectDialFail(s)
  \/ \E s \in Sessions : ConnectPut(s)
  \/ \E s \in Sessions : RunConnectFailed(s)
  \/ \E s \in Sessions : RunConnected(s)
  \/ \E s \in Sessions : TunnelStart(s)
  \/ \E s \in Sessions : TunnelListenOk(s)
  \/ \E s \in Sessions : TunnelListenFail(s)
  \/ \E s \in Sessions : RunTunnelFailed(s)
  \/ \E s \in Sessions : RunTunnelFailDisconnect(s)
  \/ \E s \in Sessions : RunActive(s)
  \/ \E s \in Sessions : MonitorCtxDone(s)
  \/ \E s \in Sessions : MonitorStopRequested(s)
  \/ \E s \in Sessions : MonitorTick(s)
  \/ \E s \in Sessions : StopSessionBegin(s, "sup")
  \/ \E s \in Sessions : StopSessionTunnel(s, "sup")
  \/ \E s \in Sessions : StopSessionWait(s, "sup")
  \/ \E s \in Sessions : StopSessionDisconnect(s, "sup")
  \/ \E s \in Sessions : StopSessionFinal(s, "sup")
  \/ \E s \in Sessions : AcceptLoopTop(s)
  \/ \E s \in Sessions : AcceptConn(s)
  \/ \E s \in Sessions : AcceptError(s)
  \/ \E s \in Sessions : HandlerRegister(s)
  \/ \E s \in Sessions : HandlerPeerClose(s)
  \/ \E s \in Sessions : HandlerExit(s)
  \/ \E s \in Sessions : CreateSession(s)
  \/ \E s \in Sessions : StartSession(s)
  \/ \E s \in Sessions : StopSession(s)

RestartSpec == Init /\ [][RestartNext]_vars

\* A manager whose sessions are created, started and stopped through the API
\* and which is then closed.
CloseSpec == Init /\ [][CloseNext]_vars

\* The caller of Close is scheduled.
CloseFairSpec == CloseSpec /\ WF_vars(CloseCall)

\* copyData with IdleTimeout > 0: the deadline set before io.Copy passes, both
\* copies return and transfer ends.  With IdleTimeout = 0 no deadline is set.
HandlerDeadline(s) ==
  /\ tconn[s] = "open"
  /\ idleTimeout > 0
  /\ tconn' = [tconn EXCEPT ![s] = "closed"]
  /\ UNCHANGED <<running, tstop, listener, acc>>
  /\ UNCHANGED <<poolVars, clientVars, sessVars>>
  /\ UNCHANGED extVars

\* Sessions that are started and stopped under client connections, with a
\* rule that may or may not carry an idle timeout.
StopWaitInit ==
  /\ InitPoolVars
  /\ InitClientVars
  /\ ckey = [c \in Ids |-> NoKey]
  /\ InitSessVars
  /\ InitTunVars
  /\ maxSize = MaxSize
  /\ InitTrafVars
  /\ InitSplVars
  /\ InitHkVars
  /\ InitRestRule
  /\ idleTimeout \in {0, IdleTimeout}

StopWaitNext ==
  \/ RestartNext
  \/ \E s \in Sessions : HandlerDeadline(s)

StopWaitSpec == StopWaitInit /\ [][StopWaitNext]_vars

\* The goroutines are scheduled and a deadline that was set passes; peers
\* are free never to close their side.
StopWaitFairSpec ==
  StopWaitSpec /\ Fairness /\ \A s \in Sessions : WF_vars(HandlerDeadline(s))

\* The accept loop and the connection handlers of one running rule.
TrafficNext ==
  \/ AcceptLoopTop(Tun)
  \/ LocalAcceptError
  \/ RemoteAcceptError
  \/ PeerClosesListener
  \/ TransportDies
  \/ \E h \in Slots : TrafficAccept(h)
  \/ \E h \in Slots : HandlerCount(h)
  \/ \E h \in Slots : HandlerDialOk(h)
  \/ \E h \in Slots : HandlerDialFail(h)
  \/ \E h \in Slots : HandlerTransferDone(h)
  \/ \E h \in Slots : HandlerReturn(h)

TrafficSpec == TrafficInit /\ [][TrafficNext]_vars

\* ------------------------------------------------------------- claims

\* No transport has been closed or lost so far.
NoTransportLost == \A i \in ConnIds : conn[i] \in {"none", "open"}

\* SSH handshakes performed for pool key k.
Handshakes(k) == Cardinality({i \in ConnIds : connKey[i] = k})

\* Open transports dialled for pool key k.
OpenFor(k) == {i \in ConnIds : connKey[i] = k /\ conn[i] = "open"}

\* Clients that hold transport i.
Holders(i) == {c \in Ids : cclient[c] = i /\ cconnected[c]}

\* The Connect call of client c has returned nil.
ConnectReturned(c) == cpc[c] = "idle" /\ cres[c] = "ok" /\ IsConnected(c)

\* The transport session s holds is dead.
TransportDead(s) == cclient[s] # Nil /\ conn[cclient[s]] = "dead"

\* C1: two clients of one pool key whose Connect calls have both returned,
\* with no transport closed or lost since the pool was empty, hold the same
\* transport, and one handshake was performed for the key.
C1_SharedTransport ==
  \A c1, c2 \in Clients :
    (c1 # c2 /\ ckey[c1] = ckey[c2] /\ ConnectReturned(c1) /\ ConnectReturned(c2)
       /\ NoTransportLost)
    => (cclient[c1] = cclient[c2] /\ Handshakes(ckey[c1]) = 1)

\* C2: when two sessions of one pool key are both Active, one transport is
\* open for the key and both hold it; when one is Active and the other has
\* been stopped, the Active one holds an open transport alone.
C2_PoolReuse ==
  \A s1, s2 \in Pair :
    (s1 # s2 /\ ckey[s1] = ckey[s2] /\ status[s1] = "Active")
    => /\ status[s2] = "Active" =>
            /\ Cardinality(OpenFor(ckey[s1])) = 1
            /\ cclient[s1] = cclient[s2]
            /\ Cardinality(Holders(cclient[s1])) = 2
       /\ status[s2] = "Stopped" =>
            /\ IsConnected(s1)
            /\ conn[cclient[s1]] = "open"
            /\ Cardinality(Holders(cclient[s1])) = 1

StopRequested(s) == stopChan[s] = 1 \/ cancelled[s]

\* C4: an Active session whose transport died is moved to Error by the
\* supervisor, and from there through Connecting and Connected to Active,
\* unless the session is stopped or deleted meanwhile.
C4_ReconnectOnLoss ==
  \A s \in Sessions :
    (inMap[s] /\ ~StopRequested(s) /\ status[s] = "Active" /\ TransportDead(s))
      ~> (\/ ~inMap[s]
          \/ StopRequested(s)
          \/ status[s] = "Error"
               /\ <>(status[s] = "Connecting"
                       /\ <>(status[s] = "Connected" /\ <>(status[s] = "Active"))))

\* C5: a session in Error eventually re-enters Connecting or reaches Stopped,
\* unless it is deleted meanwhile.
C5_ErrorIsTransient ==
  \A s \in Sessions :
    (inMap[s] /\ status[s] = "Error")
      ~> (~inMap[s] \/ status[s] \in {"Connecting", "Stopped"})

\* C6: the supervisor gives up reconnecting only for a session created with
\* MaxRetries = k > 0, after k failed attempts; a session created with
\* MaxRetries = 0 never gives up because of the retry count.
C6_RetryBudget ==
  \A s \in Sessions :
    lastError[s] = "retries_exhausted"
    => (reqRetries[s] > 0 /\ attempt[s] = reqRetries[s])

\* C7: once a stop of a listed session has completed, its listener is closed
\* and the active-connection count it reports is 0.
C7_StopClosesAll ==
  \A s \in Sessions :
    (inMap[s] /\ status[s] = "Stopped" /\ pc[s] = "idle")
    => (~listener[s] /\ sessActive[s] = 0)

\* C8: a stop request that StopSession accepted is eventually followed by
\* the session being Stopped with its listener closed and its transport
\* released, unless the session is deleted meanwhile.
C8_StopLeadsToStopped ==
  \A s \in Sessions :
    (inMap[s] /\ stopChan[s] = 1)
      ~> (\/ ~inMap[s]
          \/ status[s] = "Stopped" /\ ~listener[s] /\ ~IsConnected(s))

\* C9: after two accepted StopSession calls on a session that one call stops
\* (it is neither Created nor Error), once the supervisor is at rest the
\* session is Stopped, its listener closed, no connection active and its
\* transport released.
C9_StopIdempotent ==
  \A s \in Sessions :
    (inMap[s] /\ stops[s] = 2 /\ pc[s] = "idle" /\ status[s] \notin {"Created", "Error"})
    => (status[s] = "Stopped" /\ ~listener[s] /\ TmActive(s) = 0 /\ ~IsConnected(s))

\* C10: when the context of a started tunnel is cancelled and the session's
\* goroutines are at rest, the accept loop has ended, the listener and the
\* connections are closed and the session is Stopped.
C10_CancelIsStop ==
  \A s \in Sessions :
    (cancelled[s] /\ TunnelStarted(s) /\ pc[s] = "idle" /\ dpc[s] = "idle")
    => (acc[s] = "none" /\ ~listener[s] /\ tconn[s] = "none" /\ status[s] = "Stopped")

\* C11: once DeleteSession has returned for a session that was created and
\* never started, the session is not listed, it has no listener, accept loop
\* or running tunnel, its client holds no transport and no transport exists
\* for its key.
C11_CreateDeleteNeutral ==
  \A s \in Pair :
    (status[s] = "Stopped" /\ dpc[s] = "idle")
    => /\ ~inMap[s]
       /\ ~listener[s] /\ acc[s] = "none" /\ running[s] = 0
       /\ ~IsConnected(s)
       /\ ~HasKey(pool, ckey[s])
       /\ \A i \in ConnIds : connKey[i] = ckey[s] => conn[i] \notin {"open", "dead"}

\* C11 witness: DeleteSession has returned for a created session while
\* another session of the same key is still listed.
C11_Witness ==
  \E s, u \in Pair :
    /\ s # u
    /\ status[s] = "Stopped" /\ dpc[s] = "idle" /\ cancelled[s]
    /\ inMap[u] /\ ckey[u] = ckey[s]

\* Handlers of the rule that are inside tm.transfer.
Splicers == {h \in Slots : hpc[h] = "splice"}

\* C12: at no time are more than MaxConnections handlers of a rule splicing.
C12_ConnectionLimit == Cardinality(Splicers) <= MaxConnections

\* C13: ActiveConnections equals the number of handlers inside tm.transfer.
C13_ActiveCountsSplicers == tmActive = Cardinality(Splicers)

\* C16: a handler whose dial fails adds one to FailedConnections and, when it
\* returns, takes back its one from ActiveConnections; neither step changes
\* the tunnel's running flag, listener or accept loop, nor the session's
\* status; after a failure the accept loop is still running on the open listener.
C16_DialFailureStaysLocal ==
  /\ [][\A h \in Slots :
          /\ (hpc[h] = "dial" /\ hpc'[h] = "failed")
               => /\ tmFailed' = tmFailed + 1
                  /\ tmActive' = tmActive
                  /\ running' = running /\ listener' = listener /\ acc' = acc
                  /\ status' = status /\ lastError' = lastError
          /\ (hpc[h] = "failed" /\ hpc'[h] = "none")
               => /\ tmActive' = tmActive - 1
                  /\ tmFailed' = tmFailed
                  /\ running' = running /\ listener' = listener /\ acc' = acc
                  /\ status' = status /\ lastError' = lastError]_vars
  /\ [](tmFailed > 0 =>
          /\ running[Tun] = 1 /\ listener[Tun] /\ acc[Tun] # "none"
          /\ status[Tun] = "Active")

\* C16 witness: the one connection accepted so far failed to dial and its
\* handler has returned; the accept loop is back in Accept.
C16_Witness ==
  /\ tmTotal = 1 /\ tmFailed = 1 /\ tmActive = 0
  /\ \A h \in Slots : hpc[h] = "none"
  /\ acc[Tun] = "accept" /\ listener[Tun]

\* C17: when Accept of a running remote rule fails because the peer closed
\* the listener, the accept loop ends and the session is put in Error.
C17_RemoteListenerLost ==
  [][(/\ ttype = "remote" /\ peerLost /\ running[Tun] = 1
      /\ acc[Tun] = "accept" /\ acc'[Tun] # "accept")
     => (acc'[Tun] = "none" /\ status'[Tun] = "Error")]_vars

\* C14: with IdleTimeout = T, io.Copy is ended by the idle deadline only
\* after T without a byte moved; a connection on which bytes keep moving is
\* never closed by the timer.
C14_IdleTimerMeasuresIdleness ==
  \A d \in Dirs : why[d] = "deadline" => idle >= IdleTimeout

\* C15: after side Src(d) has reached end-of-stream and its copy has
\* returned, a byte that the other side sends is not lost: that side stays
\* readable (no deadline having ended a copy).
C15_HalfCloseKeepsOtherDirection ==
  [][\A d \in Dirs :
       (/\ why[d] = "eof"
        /\ why[Rev(d)] # "deadline"
        /\ pending'[Dst(d)] + dropped'[Dst(d)] > pending[Dst(d)] + dropped[Dst(d)])
       => dropped'[Dst(d)] = dropped[Dst(d)]]_vars

\* C18: under the ask policy a key is accepted for a host only if the
\* known-hosts file records no other key for that host: a host that presents
\* a key different from its recorded one is rejected.
C18_AskRejectsChangedKey ==
  hkResult = "accept" =>
    \A i \in DOMAIN knownHosts :
      knownHosts[i][1] = hkHost => knownHosts[i][2] = hkKey

\* C19: a Connect whose pool.Put finds the pool full, for a key the pool does
\* not hold, returns an error and leaves the caller not connected.
C19_FullPoolFailsConnect ==
  [][\A c \in Clients :
       (/\ cpc[c] = "put"
        /\ cpc'[c] = "idle"
        /\ Cardinality(pool) >= maxSize
        /\ ~HasKey(pool, getConnectionKey(c)))
       => (cres'[c] = "err" /\ ~(cconnected'[c] /\ cclient'[c] # Nil))]_vars

\* C20: a Connect that is served by pool.Get hands the caller a transport
\* that is alive.
C20_GetHandsOutLiveTransport ==
  [][\A c \in Clients :
       (/\ cpc[c] = "get"
        /\ ~IsConnected(c)
        /\ cpc'[c] = "idle"
        /\ cres'[c] = "ok")
       => conn[cclient'[c]] = "open"]_vars

C22_LoopbackUnlessAllowed ==
  (/\ ttype \in {"local", "dynamic"}
   /\ ~allowRemote
   /\ boundAddr[1] # "none")
  => IsLoopback(boundAddr[1])

\* C23: a connection to a dynamic rule whose client sent a valid CONNECT for
\* target T goes on, once the SOCKS handshake is over, as a connection to a
\* local rule for T does over the same transport: it is dialled to T and
\* spliced, and is not counted as failed.
C23_SocksConnectLikeLocal ==
  \A h \in Slots :
    (/\ ttype = "dynamic"
     /\ sreq[h] # "none"
     /\ hpc[h] \notin {"none", "spawned", "socks"})
    => (hpc[h] # "failed" /\ targetAddr[h] = sreq[h])

\* Writers that are inside a write to the session's WebSocket.
InWrite ==
  {p \in Pumps : ppc[p] = "write"} \cup (IF hpos = "write" THEN {HandlerId} ELSE {})

\* C24: at most one writer is inside a write to the WebSocket of a terminal
\* session at any time.
C24_WebSocketWritesSerialized == Cardinality(InWrite) <= 1

\* One pump is inside its write while the other pump, with output of its
\* own, waits for the mutex.
C24_Witness ==
  \E p, q \in Pumps : p # q /\ ppc[p] = "write" /\ ppc[q] = "lock"

\* C25: once the session's context is cancelled while its SSH session is
\* open, the SSH session is eventually closed.
C25_CloseSessionClosesShell ==
  (termDone /\ sshSess[1] = "open") ~> (sshSess[1] = "closed")

\* C26: Connect does not fail because one credential source is unavailable
\* (an empty password, no agent socket) while another credential is
\* available.
C26_UnavailableCredentialSkipped ==
  apos = "failed" => GetAllAuthMethods(aPassword, aKey, aAgent) = <<>>

\* C27: the authentication methods built for a connection are exactly the
\* available ones, in the order agent, private key, password.
C27_AuthListIsAvailableInOrder ==
  apos = "built" => authList = GetAllAuthMethods(aPassword, aKey, aAgent)

\* C28: a start is accepted only for a session in status Created; in any
\* other status StartSession changes nothing.
C28_StartOnlyFromCreated ==
  [][\A s \in Sessions : StartSession(s) => status[s] = "Created"]_vars

\* The status changes that a session may make once it exists.
StatusEdges ==
  {<<"Created", "Connecting">>, <<"Connecting", "Connected">>,
   <<"Connected", "Active">>, <<"Error", "Connecting">>,
   <<"Stopping", "Stopped">>}
  \cup {<<st, "Error">> : st \in {"Connecting", "Connected", "Active"}}
  \cup {<<st, "Stopping">> :
          st \in {"Created", "Connecting", "Connected", "Active", "Error"}}

\* C29: every change of the status of an existing session is one of the
\* edges Created-Connecting, Connecting-Connected, Connected-Active,
\* Connecting/Connected/Active-Error, Error-Connecting, non-terminal-Stopping,
\* Stopping-Stopped; so Active is entered only from Connected and Stopped is
\* never left.
C29_StatusFollowsStateMachine ==
  [][\A s \in Sessions :
       (status[s] # "None" /\ status'[s] # status[s])
         => <<status[s], status'[s]>> \in StatusEdges]_vars

\* C30: the reconnect count of a session never decreases: no statistics
\* refresh resets or lowers it.
C30_ReconnectCountNeverDecreases ==
  [][\A s \in Sessions : sessReconn'[s] >= sessReconn[s]]_vars

\* Every handler of the session's tunnel has returned.
HandlersReturned(s) == tconn[s] = "none"

\* C31: a session's transport is released, and its status becomes Stopped,
\* only after its listener is closed and every connection handler of its
\* tunnel has returned.
C31_StopStepsInOrder ==
  [][\A s \in Sessions :
       (\E who \in {"sup", "del"} :
           StopSessionDisconnect(s, who) \/ StopSessionFinal(s, who))
         => (~listener[s] /\ HandlersReturned(s))]_vars

\* C32: a session in Active has a connected client that holds a transport,
\* and a session in Stopped has a disconnected client that holds none.
C32_ActiveHoldsStoppedHoldsNone ==
  \A s \in Sessions :
    /\ status[s] = "Active" => (cconnected[s] /\ cclient[s] # Nil)
    /\ status[s] = "Stopped" => (~cconnected[s] /\ cclient[s] = Nil)

\* The in-use marker of a pool entry as a count.
RefCount(e) == IF e.inUse THEN 1 ELSE 0

\* C33: the in-use marker of every pool entry equals the number of clients
\* that hold the entry's transport and have not returned it.
C33_InUseCountsHolders ==
  \A e \in pool : RefCount(e) = Cardinality(Holders(e.client))

\* An idle entry whose transport was returned by its holder, beside a
\* transport of the same key that was closed on its return.
C33_Witness ==
  \E e \in pool, i \in ConnIds :
    /\ ~e.inUse
    /\ conn[e.client] = "open"
    /\ Holders(e.client) = {}
    /\ i # e.client
    /\ connKey[i] = e.key
    /\ conn[i] = "closed"
    /\ \A c \in Clients : cpc[c] = "idle"

\* The tunnel's counter a copy direction is added to.
CounterOf(d) == IF d = "ab" THEN bytesSent ELSE bytesReceived

\* C34: while a direction of a spliced connection is still copying, the
\* tunnel's counter is behind the bytes already moved in that direction by at
\* most one buffer.
C34_CountersLagOneBuffer ==
  \A d \in Dirs : cp[d] = "copy" => moved[d] - CounterOf(d) <= 1

\* C35: a session that is started again after it was stopped is stopped
\* again without a panic and without a listener left open.
C35_RestartStopsCleanly ==
  \A s \in Sessions :
    /\ lastError[s] # "panic"
    /\ (status[s] \in {"Stopped", "Error"} /\ pc[s] = "idle") => ~listener[s]

\* C36: TunnelManager.Stop always returns: a stopSession that waits in Stop
\* for the handlers eventually leaves the wait, even if no peer ever closes
\* its side.
C36_StopAlwaysReturns ==
  \A s \in Sessions :
    (pc[s] = "ss_wait" \/ dpc[s] = "ss_wait")
      ~> (pc[s] # "ss_wait" /\ dpc[s] # "ss_wait")

\* DeleteSession has returned for the session.
Deleted(s) == status[s] # "None" /\ ~inMap[s] /\ dpc[s] = "idle"

\* C37: once DeleteSession has returned and the session is Stopped, its
\* status does not move back to Connected or Active.
C37_DeletedStaysStopped ==
  [][\A s \in Sessions :
       (Deleted(s) /\ status[s] = "Stopped")
         => status'[s] \notin {"Connected", "Active"}]_vars

\* C38: a Close call on a manager that holds a session terminates.
C38_CloseTerminates ==
  (closePc = "range" /\ \E s \in Pair : inMap[s]) ~> (closePc = "done")

\* Transport i is indexed in the pool.
Indexed(i) == \E e \in pool : e.client = i

\* C39: every open transport is indexed in the pool, held by a connected
\* client, or still in the hands of the Connect call that created it.
C39_NoTransportLeaked ==
  \A i \in ConnIds :
    conn[i] = "open"
      => (Indexed(i) \/ Holders(i) # {} \/ \E c \in Clients : ctmp[c] = i)

\* SSH connections, with their shells, that the terminal session has opened
\* and that are not closed.
OpenShells == {g \in Gens : sshSess[g] = "open"}

\* C40: a terminal session has at most one open SSH connection and shell at
\* a time, and none once HandleTerminalConnection has returned.
C40_OneShellAllClosedAtReturn ==
  /\ Cardinality(OpenShells) <= 1
  /\ hpos = "done" => OpenShells = {}

====
